---- MODULE Spec2Model ----
(***************************************************************************)
(* Model of the rule-based natural-language event extractor                *)
(* (backend/app/services/ai_service.py, class AIService).                  *)
(*                                                                         *)
(* A prompt is a TLA+ string; the regular expressions of the source are    *)
(* translated one by one into matchers that walk the characters of the     *)
(* prompt (positions are 1-based here, Python's offsets are position - 1). *)
(* A datetime is a record [date, hour, minute, second, microsecond] whose  *)
(* date is the proleptic Gregorian ordinal (date.toordinal()); an optional *)
(* value is <<>> (None) or <<v>>.  The confidence of a draft is held in     *)
(* fifths (0..5 for 0.0, 0.2, .., 1.0).                                    *)
(***************************************************************************)
EXTENDS Integers, Sequences, FiniteSets, TLC

VARIABLES
    prompt,     \* the text handed to the call
    now,        \* the date datetime.now() falls on (an ordinal)
    entities,   \* the entity bag handed to a direct _extract_datetime_info call
    pc,         \* "call" before the call, "returned" or "raised" after it
    error,      \* the exception that escaped the call ("" when none)
    draft,      \* the EventDraft generate_event_draft returned
    resolved,   \* the (start, end, all_day) _extract_datetime_info returned
    args,       \* the arguments of a direct _calculate_confidence call
    score,      \* the confidence _calculate_confidence returned, in fifths
    earlier,    \* the arguments and the score of the call made before this one
    store,      \* the rows of the events table
    request,    \* the last EventService call: its operation and data, and the rows
                \* and the deleted ids before it
    outcome,    \* how the last EventService call ended
    response,   \* what the last EventService call returned
    utcnow,     \* datetime.utcnow(), as the number of writes made so far
    removed,    \* the ids that delete_event has deleted
    user_input, \* the text handed to LLMEventExtractor.extract_event_data
    reply,      \* what client.chat did: the exception it raised or its response
    extraction, \* the EventExtraction extract_event_data returned
    sessions    \* the EventService calls in flight, one per database session

\* The variables of a direct call of the confidence scorer.
scorerVars == <<args, score, earlier>>

\* The variables of the event store and of the calls made on it.
storeVars == <<store, request, outcome, response, utcnow, removed>>

\* The variables of a call of the LLM-backed extractor.
llmVars == <<user_input, reply, extraction>>

vars ==
    <<prompt, now, entities, pc, error, draft, resolved, args, score, earlier,
      store, request, outcome, response, utcnow, removed,
      user_input, reply, extraction, sessions>>

----------------------------------------------------------------------------
(* Characters and strings                                                  *)

DigitChars == {"0", "1", "2", "3", "4", "5", "6", "7", "8", "9"}

LowerOf ==
    "A" :> "a" @@ "B" :> "b" @@ "C" :> "c" @@ "D" :> "d" @@ "E" :> "e" @@
    "F" :> "f" @@ "G" :> "g" @@ "H" :> "h" @@ "I" :> "i" @@ "J" :> "j" @@
    "K" :> "k" @@ "L" :> "l" @@ "M" :> "m" @@ "N" :> "n" @@ "O" :> "o" @@
    "P" :> "p" @@ "Q" :> "q" @@ "R" :> "r" @@ "S" :> "s" @@ "T" :> "t" @@
    "U" :> "u" @@ "V" :> "v" @@ "W" :> "w" @@ "X" :> "x" @@ "Y" :> "y" @@
    "Z" :> "z"

UpperOf ==
    "a" :> "A" @@ "b" :> "B" @@ "c" :> "C" @@ "d" :> "D" @@ "e" :> "E" @@
    "f" :> "F" @@ "g" :> "G" @@ "h" :> "H" @@ "i" :> "I" @@ "j" :> "J" @@
    "k" :> "K" @@ "l" :> "L" @@ "m" :> "M" @@ "n" :> "N" @@ "o" :> "O" @@
    "p" :> "P" @@ "q" :> "Q" @@ "r" :> "R" @@ "s" :> "S" @@ "t" :> "T" @@
    "u" :> "U" @@ "v" :> "V" @@ "w" :> "W" @@ "x" :> "X" @@ "y" :> "Y" @@
    "z" :> "Z"

UpperChars == DOMAIN LowerOf
LowerChars == DOMAIN UpperOf

\* The character at position i of s, "" outside the string.
At(s, i) == IF 1 <= i /\ i <= Len(s) THEN SubSeq(s, i, i) ELSE ""

IsDigit(c) == c \in DigitChars
IsAlpha(c) == c \in UpperChars \/ c \in LowerChars
\* \w and \s of Python's re, over the characters the prompts are made of.
IsWordChar(c) == IsAlpha(c) \/ IsDigit(c) \/ c = "_"
IsSpace(c) == c \in {" ", "\t", "\n", "\r"}

LowerChar(c) == IF c \in UpperChars THEN LowerOf[c] ELSE c
UpperChar(c) == IF c \in LowerChars THEN UpperOf[c] ELSE c

\* str.lower()
RECURSIVE str_lower(_)
str_lower(s) == IF s = "" THEN "" ELSE LowerChar(Head(s)) \o str_lower(Tail(s))

\* Whether the literal lit stands at position i of s.
LitAt(s, i, lit) ==
    /\ i >= 1
    /\ i + Len(lit) - 1 <= Len(s)
    /\ SubSeq(s, i, i + Len(lit) - 1) = lit

\* \b between the characters at positions i - 1 and i.
WordBoundary(s, i) == IsWordChar(At(s, i - 1)) # IsWordChar(At(s, i))

\* Greedy \s*: the first position from i on that holds no whitespace.
RECURSIVE SkipSpaces(_, _)
SkipSpaces(s, i) == IF IsSpace(At(s, i)) THEN SkipSpaces(s, i + 1) ELSE i

\* Greedy \d*: the first position from i on that holds no digit.
RECURSIVE SkipDigits(_, _)
SkipDigits(s, i) == IF IsDigit(At(s, i)) THEN SkipDigits(s, i + 1) ELSE i

\* "sub in s"
RECURSIVE ContainsFrom(_, _, _)
ContainsFrom(s, sub, i) ==
    IF i + Len(sub) - 1 > Len(s) THEN FALSE
    ELSE IF LitAt(s, i, sub) THEN TRUE
    ELSE ContainsFrom(s, sub, i + 1)

Contains(s, sub) == ContainsFrom(s, sub, 1)

\* str.find(sub): Python's 0-based offset of the first occurrence, -1 if none.
RECURSIVE FindFrom(_, _, _)
FindFrom(s, sub, i) ==
    IF i + Len(sub) - 1 > Len(s) THEN -1
    ELSE IF LitAt(s, i, sub) THEN i - 1
    ELSE FindFrom(s, sub, i + 1)

str_find(s, sub) == FindFrom(s, sub, 1)

DigitValue ==
    "0" :> 0 @@ "1" :> 1 @@ "2" :> 2 @@ "3" :> 3 @@ "4" :> 4 @@
    "5" :> 5 @@ "6" :> 6 @@ "7" :> 7 @@ "8" :> 8 @@ "9" :> 9

\* str.strip()
RECURSIVE StripLeft(_)
StripLeft(s) == IF s # "" /\ IsSpace(Head(s)) THEN StripLeft(Tail(s)) ELSE s

RECURSIVE StripRight(_)
StripRight(s) ==
    IF s # "" /\ IsSpace(At(s, Len(s)))
    THEN StripRight(SubSeq(s, 1, Len(s) - 1))
    ELSE s

str_strip(s) == StripRight(StripLeft(s))

\* " ".join(ws)
RECURSIVE Join(_)
Join(ws) ==
    IF ws = <<>> THEN ""
    ELSE IF Len(ws) = 1 THEN ws[1]
    ELSE ws[1] \o " " \o Join(Tail(ws))

\* The value of a run of decimal digits.
RECURSIVE DigitsValue(_)
DigitsValue(s) ==
    IF s = "" THEN 0
    ELSE 10 * DigitsValue(SubSeq(s, 1, Len(s) - 1)) + DigitValue[At(s, Len(s))]

RECURSIVE AllDigits(_)
AllDigits(s) == s = "" \/ (IsDigit(Head(s)) /\ AllDigits(Tail(s)))

\* int(text) as a parser that reads 0 where the text is no number.
IntParse_Lenient(text) ==
    LET t == str_strip(text)
        signed == t # "" /\ Head(t) \in {"+", "-"}
        body == IF signed THEN Tail(t) ELSE t
    IN  IF body = "" \/ ~AllDigits(body) THEN << 0 >>
        ELSE IF signed /\ Head(t) = "-" THEN << 0 - DigitsValue(body) >>
        ELSE << DigitsValue(body) >>

\* int(text): <<n>>, or <<>> where Python raises ValueError.  Surrounding
\* whitespace and one sign are accepted, as int() accepts them.
IntParse(text) ==
    LET t == str_strip(text)
        signed == t # "" /\ Head(t) \in {"+", "-"}
        body == IF signed THEN Tail(t) ELSE t
    IN  IF body = "" \/ ~AllDigits(body) THEN <<>>
        ELSE IF signed /\ Head(t) = "-" THEN << 0 - DigitsValue(body) >>
        ELSE << DigitsValue(body) >>

----------------------------------------------------------------------------
(* Entity scanner: time mentions                                           *)

\* (am|pm) at position i of the lowered prompt.
MeridiemAt(low, i) == LitAt(low, i, "am") \/ LitAt(low, i, "pm")

\* pattern2 = \b(\d{1,2}):(\d{2})\s*(am|pm)\b with re.IGNORECASE, tried at
\* position i: <<match>> or <<>>.  p is the prompt, low its lowered text.
Pattern2At(p, low, i) ==
    LET n == IF IsDigit(At(low, i)) /\ IsDigit(At(low, i + 1)) /\ At(low, i + 2) = ":"
             THEN 2
             ELSE IF IsDigit(At(low, i)) /\ At(low, i + 1) = ":" THEN 1
             ELSE 0
        m == i + n + 1
        k == SkipSpaces(low, m + 2)
    IN  IF /\ n > 0
           /\ WordBoundary(low, i)
           /\ IsDigit(At(low, m))
           /\ IsDigit(At(low, m + 1))
           /\ MeridiemAt(low, k)
           /\ WordBoundary(low, k + 2)
        THEN << [start |-> i - 1, end |-> k + 1,
                 hour |-> SubSeq(p, i, i + n - 1),
                 minute |-> SubSeq(p, m, m + 1),
                 am_pm |-> SubSeq(p, k, k + 1),
                 raw |-> SubSeq(p, i, k + 1)] >>
        ELSE <<>>

\* pattern1 = \b(\d{1,2})\s*(am|pm)\b with re.IGNORECASE, tried at position i.
Pattern1At(p, low, i) ==
    LET n == IF IsDigit(At(low, i)) /\ IsDigit(At(low, i + 1)) THEN 2
             ELSE IF IsDigit(At(low, i)) THEN 1
             ELSE 0
        k == SkipSpaces(low, i + n)
    IN  IF /\ n > 0
           /\ WordBoundary(low, i)
           /\ MeridiemAt(low, k)
           /\ WordBoundary(low, k + 2)
        THEN << [start |-> i - 1, end |-> k + 1,
                 hour |-> SubSeq(p, i, i + n - 1),
                 am_pm |-> SubSeq(p, k, k + 1),
                 raw |-> SubSeq(p, i, k + 1)] >>
        ELSE <<>>

\* re.finditer(pattern2, prompt): the matches from position i on, left to
\* right, each search resuming where the previous match ended.
RECURSIVE FindIter2(_, _, _)
FindIter2(p, low, i) ==
    IF i > Len(p) THEN <<>>
    ELSE LET m == Pattern2At(p, low, i)
         IN  IF m # <<>> THEN m \o FindIter2(p, low, m[1].end + 1)
             ELSE FindIter2(p, low, i + 1)

RECURSIVE FindIter1(_, _, _)
FindIter1(p, low, i) ==
    IF i > Len(p) THEN <<>>
    ELSE LET m == Pattern1At(p, low, i)
         IN  IF m # <<>> THEN m \o FindIter1(p, low, m[1].end + 1)
             ELSE FindIter1(p, low, i + 1)

\* The dict appended for a pattern2 match.
LongMention(m) ==
    [type |-> "single", hour |-> m.hour, minute |-> m.minute,
     am_pm |-> m.am_pm, raw |-> m.raw]

\* The dict appended for a pattern1 match.
ShortMention(m) ==
    [type |-> "single", hour |-> m.hour, minute |-> "0",
     am_pm |-> m.am_pm, raw |-> m.raw]

\* matched_positions: for each mention so far, the span of the FIRST
\* occurrence of its raw text in the prompt (prompt.find), as Python offsets.
MatchedPositions(p, times) ==
    [k \in 1..Len(times) |->
        << str_find(p, times[k].raw), str_find(p, times[k].raw) + Len(times[k].raw) >>]

\* The overlap test applied to a pattern1 match.
Overlaps(m, matched_positions) ==
    \E k \in 1..Len(matched_positions) :
        LET start == matched_positions[k][1]
            end == matched_positions[k][2]
        IN  \/ (m.start >= start /\ m.start < end)
            \/ (m.end > start /\ m.end <= end)

RECURSIVE KeepShort(_, _)
KeepShort(ms, matched_positions) ==
    IF ms = <<>> THEN <<>>
    ELSE IF Overlaps(Head(ms), matched_positions)
         THEN KeepShort(Tail(ms), matched_positions)
         ELSE <<ShortMention(Head(ms))>> \o KeepShort(Tail(ms), matched_positions)

\* entities["times"]: every pattern2 mention first, then the pattern1
\* mentions that pass the overlap test.
ExtractTimes(p) ==
    LET low == str_lower(p)
        long == FindIter2(p, low, 1)
        times == [k \in 1..Len(long) |-> LongMention(long[k])]
        short == FindIter1(p, low, 1)
    IN  times \o KeepShort(short, MatchedPositions(p, times))

----------------------------------------------------------------------------
(* Entity scanner: dates and locations                                     *)

\* Greedy \w*: the first position from i on that holds no word character.
RECURSIVE SkipWord(_, _)
SkipWord(s, i) == IF IsWordChar(At(s, i)) THEN SkipWord(s, i + 1) ELSE i

\* re.findall(r"\bword\b", prompt, re.IGNORECASE) from position i on, for
\* the words "tomorrow" and "today" of date_patterns.
RECURSIVE FindAllWord(_, _, _, _)
FindAllWord(p, low, word, i) ==
    IF i > Len(p) THEN <<>>
    ELSE IF /\ LitAt(low, i, word)
            /\ WordBoundary(low, i)
            /\ WordBoundary(low, i + Len(word))
         THEN << SubSeq(p, i, i + Len(word) - 1) >>
                  \o FindAllWord(p, low, word, i + Len(word))
         ELSE FindAllWord(p, low, word, i + 1)

\* re.findall(r"\bnext\s+week\b", prompt, re.IGNORECASE) from position i on.
RECURSIVE FindAllNextWeek(_, _, _)
FindAllNextWeek(p, low, i) ==
    IF i > Len(p) THEN <<>>
    ELSE IF /\ LitAt(low, i, "next")
            /\ WordBoundary(low, i)
            /\ IsSpace(At(low, i + 4))
            /\ LitAt(low, SkipSpaces(low, i + 4), "week")
            /\ WordBoundary(low, SkipSpaces(low, i + 4) + 4)
         THEN << SubSeq(p, i, SkipSpaces(low, i + 4) + 3) >>
                  \o FindAllNextWeek(p, low, SkipSpaces(low, i + 4) + 4)
         ELSE FindAllNextWeek(p, low, i + 1)

\* \w+day\b at position g: the position after the match, 0 when none.  The
\* word that starts at g must end in "day" and have a character before it.
DayWordEnd(low, g) ==
    LET r == SkipWord(low, g)
    IN  IF r - g >= 4 /\ LitAt(low, r - 3, "day") THEN r ELSE 0

\* re.findall(r"\bnext\s+\w+day\b", prompt, re.IGNORECASE) from position i on.
RECURSIVE FindAllNextDay(_, _, _)
FindAllNextDay(p, low, i) ==
    IF i > Len(p) THEN <<>>
    ELSE LET e == DayWordEnd(low, SkipSpaces(low, i + 4))
         IN  IF /\ LitAt(low, i, "next")
                /\ WordBoundary(low, i)
                /\ IsSpace(At(low, i + 4))
                /\ e # 0
             THEN << SubSeq(p, i, e - 1) >> \o FindAllNextDay(p, low, e)
             ELSE FindAllNextDay(p, low, i + 1)

\* re.findall(r"\b\w+day\b", prompt, re.IGNORECASE) from position i on.
RECURSIVE FindAllDayWords(_, _, _)
FindAllDayWords(p, low, i) ==
    IF i > Len(p) THEN <<>>
    ELSE LET e == DayWordEnd(low, i)
         IN  IF WordBoundary(low, i) /\ e # 0
             THEN << SubSeq(p, i, e - 1) >> \o FindAllDayWords(p, low, e)
             ELSE FindAllDayWords(p, low, i + 1)

\* (\d{1,2})\b at position k: the number of digits taken, 0 when none.
ShortNumberLen(p, k) ==
    IF IsDigit(At(p, k)) /\ IsDigit(At(p, k + 1)) /\ WordBoundary(p, k + 2) THEN 2
    ELSE IF IsDigit(At(p, k)) /\ WordBoundary(p, k + 1) THEN 1
    ELSE 0

\* re.findall(r"\b(\d{1,2})/(\d{1,2})\b", prompt, re.IGNORECASE) from
\* position i on: the pairs of groups.
RECURSIVE FindAllSlashDates(_, _)
FindAllSlashDates(p, i) ==
    IF i > Len(p) THEN <<>>
    ELSE LET n1 == IF IsDigit(At(p, i)) /\ IsDigit(At(p, i + 1)) /\ At(p, i + 2) = "/"
                   THEN 2
                   ELSE IF IsDigit(At(p, i)) /\ At(p, i + 1) = "/" THEN 1
                   ELSE 0
             s == i + n1 + 1
             n2 == ShortNumberLen(p, s)
         IN  IF WordBoundary(p, i) /\ n1 > 0 /\ n2 > 0
             THEN << << SubSeq(p, i, i + n1 - 1), SubSeq(p, s, s + n2 - 1) >> >>
                      \o FindAllSlashDates(p, s + n2)
             ELSE FindAllSlashDates(p, i + 1)

\* re.findall(r"\b(\w+)\s+(\d{1,2})\b", prompt, re.IGNORECASE) from position
\* i on: the pairs of groups.
RECURSIVE FindAllWordNumbers(_, _)
FindAllWordNumbers(p, i) ==
    IF i > Len(p) THEN <<>>
    ELSE LET r == SkipWord(p, i)
             k == SkipSpaces(p, r)
             n == ShortNumberLen(p, k)
         IN  IF WordBoundary(p, i) /\ r > i /\ k > r /\ n > 0
             THEN << << SubSeq(p, i, r - 1), SubSeq(p, k, k + n - 1) >> >>
                      \o FindAllWordNumbers(p, k + n)
             ELSE FindAllWordNumbers(p, i + 1)

\* entities["dates"]: what the seven date_patterns find, pattern by pattern.
ExtractDates(p) ==
    FindAllWord(p, str_lower(p), "tomorrow", 1)
        \o FindAllWord(p, str_lower(p), "today", 1)
        \o FindAllNextWeek(p, str_lower(p), 1)
        \o FindAllNextDay(p, str_lower(p), 1)
        \o FindAllDayWords(p, str_lower(p), 1)
        \o FindAllSlashDates(p, 1)
        \o FindAllWordNumbers(p, 1)

\* $ of Python's re: the end of the string, or just before a final newline.
AtEnd(s, i) == i = Len(s) + 1 \/ (i = Len(s) /\ At(s, i) = "\n")

\* The character class [A-Za-z\s] of the first two location_patterns.
IsPlaceChar(c) == IsAlpha(c) \/ IsSpace(c)

\* (?:\s+with|\s+on|\s+from|$) at position j: the position after the match,
\* 0 when no alternative matches.
PlaceStopEnd(low, j) ==
    LET k == SkipSpaces(low, j)
    IN  IF IsSpace(At(low, j)) /\ LitAt(low, k, "with") THEN k + 4
        ELSE IF IsSpace(At(low, j)) /\ LitAt(low, k, "on") THEN k + 2
        ELSE IF IsSpace(At(low, j)) /\ LitAt(low, k, "from") THEN k + 4
        ELSE IF AtEnd(low, j) THEN j
        ELSE 0

\* The lazy group ([A-Za-z\s]+?) from position g, now m characters long:
\* the shortest length after which the stop group matches, 0 when none.
RECURSIVE PlaceGroupLen(_, _, _)
PlaceGroupLen(low, g, m) ==
    IF ~IsPlaceChar(At(low, g + m - 1)) THEN 0
    ELSE IF PlaceStopEnd(low, g + m) # 0 THEN m
    ELSE PlaceGroupLen(low, g, m + 1)

\* The greedy \s+ after the preposition, giving back one character at a time.
RECURSIVE PlaceSpaces(_, _, _)
PlaceSpaces(low, j, w) ==
    IF w < 1 THEN 0
    ELSE IF PlaceGroupLen(low, j + w, 1) # 0 THEN w
    ELSE PlaceSpaces(low, j, w - 1)

\* re.findall(r"\bword\s+([A-Za-z\s]+?)(?:\s+with|\s+on|\s+from|$)", prompt,
\* re.IGNORECASE) from position i on, for the prepositions "at" and "in".
RECURSIVE FindAllPlaces(_, _, _, _)
FindAllPlaces(p, low, word, i) ==
    IF i > Len(p) THEN <<>>
    ELSE LET j == i + Len(word)
             w == PlaceSpaces(low, j, SkipSpaces(low, j) - j)
             g == j + w
             m == PlaceGroupLen(low, g, 1)
         IN  IF LitAt(low, i, word) /\ WordBoundary(low, i) /\ w > 0
             THEN << SubSeq(p, g, g + m - 1) >>
                      \o FindAllPlaces(p, low, word, PlaceStopEnd(low, g + m))
             ELSE FindAllPlaces(p, low, word, i + 1)

\* The venue types of the third of location_patterns, in its order.
VenueWords ==
    <<"cafe", "restaurant", "office", "home", "park", "gym", "library",
      "school", "university">>

\* The venue words that match between word boundaries at position i.
VenuesAt(low, i) ==
    { n \in 1..Len(VenueWords) :
        /\ LitAt(low, i, VenueWords[n])
        /\ WordBoundary(low, i)
        /\ WordBoundary(low, i + Len(VenueWords[n])) }

\* re.findall(r"\b(cafe|...|university)\b", prompt, re.IGNORECASE) from
\* position i on; the first alternative that matches is taken.
RECURSIVE FindAllVenues(_, _, _)
FindAllVenues(p, low, i) ==
    IF i > Len(p) THEN <<>>
    ELSE IF VenuesAt(low, i) # {}
         THEN LET n == CHOOSE n \in VenuesAt(low, i) : \A o \in VenuesAt(low, i) : n <= o
                  e == i + Len(VenueWords[n])
              IN  << SubSeq(p, i, e - 1) >> \o FindAllVenues(p, low, e)
         ELSE FindAllVenues(p, low, i + 1)

\* [match.strip() for match in matches]
RECURSIVE StripEach(_)
StripEach(matches) ==
    IF matches = <<>> THEN <<>>
    ELSE << str_strip(Head(matches)) >> \o StripEach(Tail(matches))

\* entities["locations"]: what the three location_patterns find, stripped.
ExtractLocations(p) ==
    StripEach(FindAllPlaces(p, str_lower(p), "at", 1))
        \o StripEach(FindAllPlaces(p, str_lower(p), "in", 1))
        \o StripEach(FindAllVenues(p, str_lower(p), 1))

----------------------------------------------------------------------------
(* Entity scanner: people and keywords                                     *)

\* The character class [A-Za-z\s,] of people_pattern.
IsNameChar(c) == IsAlpha(c) \/ IsSpace(c) \/ c = ","

\* \s+word\s+ at position j: the position after the match, 0 when none.
SpacedWordEnd(low, j, word) ==
    LET k == SkipSpaces(low, j)
        e == k + Len(word)
    IN  IF IsSpace(At(low, j)) /\ LitAt(low, k, word) /\ IsSpace(At(low, e))
        THEN SkipSpaces(low, e)
        ELSE 0

\* \s+word\b at position j: the position after the match, 0 when none.
SpacedWordBoundaryEnd(low, j, word) ==
    LET k == SkipSpaces(low, j)
        e == k + Len(word)
    IN  IF IsSpace(At(low, j)) /\ LitAt(low, k, word) /\ WordBoundary(low, e)
        THEN e
        ELSE 0

\* \s+\d{1,2}(?:am|pm|:) at position j: the position after the match, 0 when none.
SpacedClockEnd(low, j) ==
    LET k == SkipSpaces(low, j)
        tail(e) == IF MeridiemAt(low, e) THEN e + 2
                   ELSE IF At(low, e) = ":" THEN e + 1
                   ELSE 0
    IN  IF ~IsSpace(At(low, j)) \/ ~IsDigit(At(low, k)) THEN 0
        ELSE IF IsDigit(At(low, k + 1)) /\ tail(k + 2) # 0 THEN tail(k + 2)
        ELSE tail(k + 1)

\* The group that ends people_pattern, its alternatives tried in order, at
\* position j: the position after the match, 0 when no alternative matches.
PeopleStopEnd(low, j) ==
    IF SpacedWordEnd(low, j, "at") # 0 THEN SpacedWordEnd(low, j, "at")
    ELSE IF SpacedWordEnd(low, j, "in") # 0 THEN SpacedWordEnd(low, j, "in")
    ELSE IF SpacedWordEnd(low, j, "on") # 0 THEN SpacedWordEnd(low, j, "on")
    ELSE IF SpacedWordEnd(low, j, "from") # 0 THEN SpacedWordEnd(low, j, "from")
    ELSE IF SpacedWordBoundaryEnd(low, j, "tomorrow") # 0
         THEN SpacedWordBoundaryEnd(low, j, "tomorrow")
    ELSE IF SpacedWordBoundaryEnd(low, j, "today") # 0
         THEN SpacedWordBoundaryEnd(low, j, "today")
    ELSE IF SpacedWordEnd(low, j, "next") # 0 THEN SpacedWordEnd(low, j, "next")
    ELSE IF SpacedClockEnd(low, j) # 0 THEN SpacedClockEnd(low, j)
    ELSE IF AtEnd(low, j) THEN j
    ELSE 0

\* The lazy group ([A-Za-z\s,]+?) from position g, now m characters long:
\* the shortest length after which the stop group matches, 0 when none.
RECURSIVE PeopleGroupLen(_, _, _)
PeopleGroupLen(low, g, m) ==
    IF ~IsNameChar(At(low, g + m - 1)) THEN 0
    ELSE IF PeopleStopEnd(low, g + m) # 0 THEN m
    ELSE PeopleGroupLen(low, g, m + 1)

\* The greedy \s+ after "with", giving back one character at a time: the
\* first length w (from the longest down) for which the rest matches.
RECURSIVE PeopleSpaces(_, _, _)
PeopleSpaces(low, j, w) ==
    IF w < 1 THEN 0
    ELSE IF PeopleGroupLen(low, j + w, 1) # 0 THEN w
    ELSE PeopleSpaces(low, j, w - 1)

\* people_pattern tried at position i: <<[group, end]>> or <<>>.
PeopleAt(p, low, i) ==
    LET j == i + 4
        w == PeopleSpaces(low, j, SkipSpaces(low, j) - j)
        g == j + w
        m == PeopleGroupLen(low, g, 1)
    IN  IF LitAt(low, i, "with") /\ WordBoundary(low, i) /\ w > 0
        THEN << [group |-> SubSeq(p, g, g + m - 1),
                 end |-> PeopleStopEnd(low, g + m)] >>
        ELSE <<>>

\* re.findall(people_pattern, prompt, re.IGNORECASE) from position i on.
RECURSIVE FindAllPeople(_, _, _)
FindAllPeople(p, low, i) ==
    IF i > Len(p) THEN <<>>
    ELSE LET m == PeopleAt(p, low, i)
         IN  IF m # <<>>
             THEN <<m[1].group>> \o FindAllPeople(p, low, m[1].end)
             ELSE FindAllPeople(p, low, i + 1)

\* str.split(","), from position i with the piece begun at position b.
RECURSIVE SplitCommas(_, _, _)
SplitCommas(s, b, i) ==
    IF i > Len(s) THEN << SubSeq(s, b, Len(s)) >>
    ELSE IF At(s, i) = "," THEN << SubSeq(s, b, i - 1) >> \o SplitCommas(s, i + 1, i + 1)
    ELSE SplitCommas(s, b, i + 1)

\* [person.strip() for person in pieces if person.strip()]
RECURSIVE StripNonEmpty(_)
StripNonEmpty(pieces) ==
    IF pieces = <<>> THEN <<>>
    ELSE IF str_strip(Head(pieces)) = "" THEN StripNonEmpty(Tail(pieces))
    ELSE << str_strip(Head(pieces)) >> \o StripNonEmpty(Tail(pieces))

RECURSIVE PeopleOf(_)
PeopleOf(matches) ==
    IF matches = <<>> THEN <<>>
    ELSE StripNonEmpty(SplitCommas(Head(matches), 1, 1)) \o PeopleOf(Tail(matches))

\* entities["people"]
ExtractPeople(p) == PeopleOf(FindAllPeople(p, str_lower(p), 1))

\* event_keywords, in list order.
EventKeywords ==
    <<"meeting", "call", "lunch", "dinner", "appointment", "interview",
      "workout", "gym", "class", "lesson", "conference", "presentation">>

\* entities["keywords"]: the vocabulary is walked in list order and a keyword
\* is appended when it occurs anywhere in the lowered prompt.
RECURSIVE KeywordsFrom(_, _)
KeywordsFrom(low, k) ==
    IF k > Len(EventKeywords) THEN <<>>
    ELSE IF Contains(low, EventKeywords[k])
         THEN << EventKeywords[k] >> \o KeywordsFrom(low, k + 1)
         ELSE KeywordsFrom(low, k + 1)

ExtractKeywords(p) == KeywordsFrom(str_lower(p), 1)

----------------------------------------------------------------------------
(* Title synthesizer: _extract_title                                       *)

\* str.title(): a cased character is upper-cased when the character before
\* it is not cased, lower-cased when it is.
RECURSIVE TitleFrom(_, _)
TitleFrom(s, i) ==
    IF i > Len(s) THEN ""
    ELSE (IF IsAlpha(At(s, i - 1)) THEN LowerChar(At(s, i)) ELSE UpperChar(At(s, i)))
         \o TitleFrom(s, i + 1)

str_title(s) == TitleFrom(s, 1)

\* "." of Python's re without DOTALL.
IsDot(c) == c # "" /\ c # "\n"

\* (?:at|on|from|tomorrow|today) at position k.
TitleStopWordAt(low, k) ==
    \/ LitAt(low, k, "at") \/ LitAt(low, k, "on") \/ LitAt(low, k, "from")
    \/ LitAt(low, k, "tomorrow") \/ LitAt(low, k, "today")

\* ^(.+?)\s+(?:at|on|from|tomorrow|today): the length of the lazy group, now
\* m characters long; 0 when the pattern does not match.
RECURSIVE LeadingClauseLen(_, _)
LeadingClauseLen(low, m) ==
    IF ~IsDot(At(low, m)) THEN 0
    ELSE IF IsSpace(At(low, m + 1)) /\ TitleStopWordAt(low, SkipSpaces(low, m + 1))
         THEN m
    ELSE LeadingClauseLen(low, m + 1)

\* group(1) of title_patterns[0]: <<text>> or <<>>.
LeadingClause(p) ==
    LET m == LeadingClauseLen(str_lower(p), 1)
    IN  IF m = 0 THEN <<>> ELSE << SubSeq(p, 1, m) >>

\* (?:\s+for|\s+at|\s+on|$) at position j.
VerbStopAt(low, j) ==
    \/ /\ IsSpace(At(low, j))
       /\ \/ LitAt(low, SkipSpaces(low, j), "for")
          \/ LitAt(low, SkipSpaces(low, j), "at")
          \/ LitAt(low, SkipSpaces(low, j), "on")
    \/ AtEnd(low, j)

\* The lazy group (.+?) from position g, now m characters long.
RECURSIVE VerbGroupLen(_, _, _)
VerbGroupLen(low, g, m) ==
    IF ~IsDot(At(low, g + m - 1)) THEN 0
    ELSE IF VerbStopAt(low, g + m) THEN m
    ELSE VerbGroupLen(low, g, m + 1)

\* The greedy \s+ after the verb, giving back one character at a time.
RECURSIVE VerbSpaces(_, _, _)
VerbSpaces(low, j, w) ==
    IF w < 1 THEN 0
    ELSE IF VerbGroupLen(low, j + w, 1) # 0 THEN w
    ELSE VerbSpaces(low, j, w - 1)

\* re.search(verb\s+(.+?)(?:\s+for|\s+at|\s+on|$)) from position i on, for
\* verb "schedule" or "book": <<group 1>> of the leftmost match, or <<>>.
RECURSIVE VerbClauseFrom(_, _, _, _)
VerbClauseFrom(p, low, verb, i) ==
    IF i > Len(p) THEN <<>>
    ELSE LET j == i + Len(verb)
             ws == VerbSpaces(low, j, SkipSpaces(low, j) - j)
             g == j + ws
         IN  IF LitAt(low, i, verb) /\ ws > 0
             THEN << SubSeq(p, g, g + VerbGroupLen(low, g, 1) - 1) >>
             ELSE VerbClauseFrom(p, low, verb, i + 1)

VerbClause(p, verb) == VerbClauseFrom(p, str_lower(p), verb, 1)

\* str.split(): the whitespace-separated words from position i on.
RECURSIVE SplitWords(_, _)
SplitWords(s, i) ==
    LET b == SkipSpaces(s, i)
        e == CHOOSE e \in b..(Len(s) + 1) :
                /\ \A k \in b..(e - 1) : ~IsSpace(At(s, k))
                /\ (e = Len(s) + 1 \/ IsSpace(At(s, e)))
    IN  IF b > Len(s) THEN <<>>
        ELSE << SubSeq(s, b, e - 1) >> \o SplitWords(s, e)

\* " ".join(words[:n])
JoinFirst(words, n) ==
    Join(SubSeq(words, 1, IF Len(words) < n THEN Len(words) ELSE n))

\* The loop over title_patterns with the "schedule" pattern tried before
\* the leading clause.
PatternTitle_VerbFirst(p) ==
    LET usable(m) == m # <<>> /\ Len(str_strip(m[1])) > 3
        first == LeadingClause(p)
        second == VerbClause(p, "schedule")
        third == VerbClause(p, "book")
    IN  IF usable(second) THEN << str_title(str_strip(second[1])) >>
        ELSE IF usable(first) THEN << str_title(str_strip(first[1])) >>
        ELSE IF usable(third) THEN << str_title(str_strip(third[1])) >>
        ELSE <<>>

\* The loop over title_patterns: the first pattern that matches with a
\* stripped group longer than 3 characters gives the title; <<>> when none.
PatternTitle(p) ==
    LET usable(m) == m # <<>> /\ Len(str_strip(m[1])) > 3
        first == LeadingClause(p)
        second == VerbClause(p, "schedule")
        third == VerbClause(p, "book")
    IN  IF usable(first) THEN << str_title(str_strip(first[1])) >>
        ELSE IF usable(second) THEN << str_title(str_strip(second[1])) >>
        ELSE IF usable(third) THEN << str_title(str_strip(third[1])) >>
        ELSE <<>>

\* _extract_title reduced to its last resort: the first five words.
ExtractTitle_WordsOnly(p, ents) ==
    str_title(JoinFirst(SplitWords(p, 1), 5))

\* _extract_title(prompt, entities)
ExtractTitle(p, ents) ==
    IF PatternTitle(p) # <<>> THEN PatternTitle(p)[1]
    ELSE IF ents.keywords # <<>>
         THEN IF ents.people # <<>>
              THEN str_title(ents.keywords[1]) \o " with " \o ents.people[1]
              ELSE str_title(ents.keywords[1])
    ELSE str_title(JoinFirst(SplitWords(p, 1), 5))

----------------------------------------------------------------------------
(* Dates and datetimes                                                     *)

None == <<>>
Some(v) == <<v>>

\* date.max.toordinal(): 9999-12-31, the last day a datetime can hold.
MaxOrdinal == 3652059

\* date.weekday(): Monday is 0; ordinal 1 (0001-01-01) is a Monday.
Weekday(date) == (date + 6) % 7

\* datetime.combine(date, time(hour, minute, second, microsecond))
Combine(date, hour, minute, second, microsecond) ==
    [date |-> date, hour |-> hour, minute |-> minute,
     second |-> second, microsecond |-> microsecond]

\* dt + timedelta(hours = n) for n >= 0: <<datetime>>, or <<>> where Python
\* raises OverflowError ("date value out of range").
AddHours(dt, n) ==
    LET total == dt.hour + n
        date == dt.date + (total \div 24)
    IN  IF date > MaxOrdinal THEN None
        ELSE Some([dt EXCEPT !.date = date, !.hour = total % 24])

\* a < b on datetimes
Before(a, b) ==
    \/ a.date < b.date
    \/ /\ a.date = b.date
       /\ \/ a.hour < b.hour
          \/ /\ a.hour = b.hour
             /\ \/ a.minute < b.minute
                \/ /\ a.minute = b.minute
                   /\ \/ a.second < b.second
                      \/ /\ a.second = b.second
                         /\ a.microsecond < b.microsecond

----------------------------------------------------------------------------
(* Temporal resolver: _extract_datetime_info                               *)

\* re.search(r"\ball\s+day\b", prompt, re.IGNORECASE)
AllDayAt(low, i) ==
    /\ LitAt(low, i, "all")
    /\ WordBoundary(low, i)
    /\ IsSpace(At(low, i + 3))
    /\ LitAt(low, SkipSpaces(low, i + 3), "day")
    /\ WordBoundary(low, SkipSpaces(low, i + 3) + 3)

\* The search for "all day" without re.IGNORECASE.
SearchAllDay_CaseSensitive(p) == \E i \in 1..Len(p) : AllDayAt(p, i)

SearchAllDay(p) == \E i \in 1..Len(p) : AllDayAt(str_lower(p), i)

\* re.search(r"\bnext\s+week\b", prompt_lower)
NextWeekAt(low, i) ==
    /\ LitAt(low, i, "next")
    /\ WordBoundary(low, i)
    /\ IsSpace(At(low, i + 4))
    /\ LitAt(low, SkipSpaces(low, i + 4), "week")
    /\ WordBoundary(low, SkipSpaces(low, i + 4) + 4)

SearchNextWeek(low) == \E i \in 1..Len(low) : NextWeekAt(low, i)

\* days_map, in the order the dict is iterated.
DayNames ==
    <<"monday", "tuesday", "wednesday", "thursday", "friday", "saturday", "sunday">>

\* The for loop over days_map with `days_ahead < 0` as the test for rolling
\* a week forward.
RECURSIVE WeekdayScan_SameDay(_, _, _)
WeekdayScan_SameDay(low, today, k) ==
    IF k > Len(DayNames) THEN today
    ELSE IF Contains(low, DayNames[k])
         THEN LET days_ahead == (k - 1) - Weekday(today)
              IN  today + (IF days_ahead < 0 THEN days_ahead + 7 ELSE days_ahead)
         ELSE WeekdayScan_SameDay(low, today, k + 1)

\* The for loop over days_map: the date for the first name (in dict order)
\* that occurs in the lowered prompt, today's date when none does.
RECURSIVE WeekdayScan(_, _, _)
WeekdayScan(low, today, k) ==
    IF k > Len(DayNames) THEN today
    ELSE IF Contains(low, DayNames[k])
         THEN LET days_ahead == (k - 1) - Weekday(today)
              IN  today + (IF days_ahead <= 0 THEN days_ahead + 7 ELSE days_ahead)
         ELSE WeekdayScan(low, today, k + 1)

\* base_date with "today" tested before "tomorrow".
BaseDate_TodayFirst(p, today) ==
    LET prompt_lower == str_lower(p)
    IN  IF Contains(prompt_lower, "today") THEN today
        ELSE IF Contains(prompt_lower, "tomorrow") THEN today + 1
        ELSE IF SearchNextWeek(prompt_lower) THEN today + 7
        ELSE WeekdayScan(prompt_lower, today, 1)

\* base_date, lines 254-281.
BaseDate(p, today) ==
    LET prompt_lower == str_lower(p)
    IN  IF Contains(prompt_lower, "tomorrow") THEN today + 1
        ELSE IF Contains(prompt_lower, "today") THEN today
        ELSE IF SearchNextWeek(prompt_lower) THEN today + 7
        ELSE WeekdayScan(prompt_lower, today, 1)

\* (?:hour|hr)s?\b at position i of the lowered prompt.
HourWordAt(low, i) ==
    LET w == IF LitAt(low, i, "hour") THEN 4
             ELSE IF LitAt(low, i, "hr") THEN 2
             ELSE 0
        e == IF At(low, i + w) = "s" THEN i + w + 1 ELSE i + w
    IN  w > 0 /\ WordBoundary(low, e)

\* re.search(r"(\d+)\s*(?:hour|hr)s?\b", prompt, re.IGNORECASE) from position
\* i on: <<group 1>> of the leftmost match, <<>> when there is none.  A match
\* can only start at the first digit of a run of digits, and takes the run.
RECURSIVE DurationSearchFrom(_, _, _)
DurationSearchFrom(p, low, i) ==
    IF i > Len(p) THEN <<>>
    ELSE IF ~IsDigit(At(low, i)) THEN DurationSearchFrom(p, low, i + 1)
    ELSE LET e == SkipDigits(low, i)
         IN  IF HourWordAt(low, SkipSpaces(low, e)) THEN << SubSeq(p, i, e - 1) >>
             ELSE DurationSearchFrom(p, low, e)

DurationSearch(p) == DurationSearchFrom(p, str_lower(p), 1)

\* datetime.min.time().replace(hour, minute) raises ValueError outside these.
ValidTime(hour, minute) == hour \in 0..23 /\ minute \in 0..59

\* The AM/PM conversion, lines 291-295.
To24Hour(hour, am_pm) ==
    IF am_pm = "pm" /\ hour # 12 THEN hour + 12
    ELSE IF am_pm = "am" /\ hour = 12 THEN 0
    ELSE hour

\* The end of the event with the duration phrase left unread.
EndOf_DefaultOnly(p, start_datetime) == AddHours(start_datetime, 1)

\* Lines 301-310, once start_datetime is set: the end of the event, or <<>>
\* where the addition raises OverflowError.  int() of the digits of group 1
\* cannot fail (short of the 4300-digit limit of int(), far beyond MaxWords).
EndOf(p, start_datetime) ==
    LET duration_match == DurationSearch(p)
        default_end == AddHours(start_datetime, 1)
    IN  IF default_end = None THEN None
        ELSE IF duration_match = <<>> THEN default_end
        ELSE AddHours(start_datetime, IntParse(duration_match[1])[1])

\* The try block, lines 286-314, for the first time mention.  outcome is
\* "ok", "caught" (ValueError or KeyError, handled by the except clause) or
\* "raised" (an exception the except clause does not name); start and end
\* are the values the two variables hold when the block is left.
TimeAttempt(p, time_info, base_date) ==
    LET failed == [outcome |-> "caught", error |-> "",
                   start_datetime |-> None, end_datetime |-> None]
    IN  IF ~({"hour", "minute", "am_pm"} \subseteq DOMAIN time_info) THEN failed
        ELSE IF IntParse(time_info.hour) = <<>> \/ IntParse(time_info.minute) = <<>>
             THEN failed
        ELSE LET hour == To24Hour(IntParse(time_info.hour)[1], str_lower(time_info.am_pm))
                 minute == IntParse(time_info.minute)[1]
                 start == Combine(base_date, hour, minute, 0, 0)
                 end == EndOf(p, start)
             IN  IF ~ValidTime(hour, minute) THEN failed
                 ELSE IF end = None
                      THEN [outcome |-> "raised", error |-> "OverflowError",
                            start_datetime |-> Some(start), end_datetime |-> None]
                      ELSE [outcome |-> "ok", error |-> "",
                            start_datetime |-> Some(start), end_datetime |-> end]

\* Line 284: the time is resolved only for a prompt that is not all-day and
\* has a time mention.
TimeTried(all_day, ents) == ~all_day /\ ents.times # <<>>

\* The full day of base_date up to datetime.max.time() as it is.
AllDayBounds_MaxTime(base_date) ==
    [start_datetime |-> Some(Combine(base_date, 0, 0, 0, 0)),
     end_datetime |-> Some(Combine(base_date, 23, 59, 59, 999999))]

\* Lines 319-322: the full day of base_date, from datetime.min.time() to
\* datetime.max.time().replace(microsecond=0).
AllDayBounds(base_date) ==
    [start_datetime |-> Some(Combine(base_date, 0, 0, 0, 0)),
     end_datetime |-> Some(Combine(base_date, 23, 59, 59, 0))]

\* _extract_datetime_info(prompt, entities) with datetime.now() on `today`:
\* [error, start_datetime, end_datetime, all_day]; error is "" on return and
\* names the exception otherwise.
ExtractDatetimeInfo(p, ents, today) ==
    LET all_day0 == SearchAllDay(p)
        base_date == BaseDate(p, today)
        tried == TimeTried(all_day0, ents)
        attempt == TimeAttempt(p, ents.times[1], base_date)
        all_day1 == all_day0 \/ (tried /\ attempt.outcome = "caught")
        start1 == IF tried THEN attempt.start_datetime ELSE None
        end1 == IF tried THEN attempt.end_datetime ELSE None
    IN  IF tried /\ attempt.outcome = "raised"
        THEN [error |-> attempt.error, start_datetime |-> None,
              end_datetime |-> None, all_day |-> FALSE]
        ELSE IF all_day1 \/ start1 = None
        THEN [error |-> "",
              start_datetime |-> AllDayBounds(base_date).start_datetime,
              end_datetime |-> AllDayBounds(base_date).end_datetime,
              all_day |-> TRUE]
        ELSE [error |-> "", start_datetime |-> start1, end_datetime |-> end1,
              all_day |-> all_day1]

----------------------------------------------------------------------------
(* Description, location, attendees and confidence                         *)

\* _extract_description(prompt)
ExtractDescription(p) == IF Len(p) > 50 THEN Some(p) ELSE None

\* The words of the group that ends a location, in its order.
LocationStopWords ==
    <<"with", "on", "from", "tomorrow", "today", "next", "monday", "tuesday",
      "wednesday", "thursday", "friday", "saturday", "sunday">>

\* (?:\s+(?:with|...|sunday|\d{1,2}(?:am|pm|:))|\s*$) at position j.
LocationStopAt(low, j) ==
    LET k == SkipSpaces(low, j)
        clock(e) == MeridiemAt(low, e) \/ At(low, e) = ":"
    IN  \/ /\ IsSpace(At(low, j))
           /\ \/ \E n \in 1..Len(LocationStopWords) : LitAt(low, k, LocationStopWords[n])
              \/ /\ IsDigit(At(low, k))
                 /\ clock(k + 1) \/ (IsDigit(At(low, k + 1)) /\ clock(k + 2))
        \/ k = Len(low) + 1

\* The character class [A-Za-z0-9\s] of the location group.
IsLocationChar(c) == IsAlpha(c) \/ IsDigit(c) \/ IsSpace(c)

\* The lazy part of the group ([A-Za-z][A-Za-z0-9\s]+?) that starts at
\* position g, the group now m characters long: the shortest length after
\* which the stop group matches, 0 when none.
RECURSIVE LocationGroupLen(_, _, _)
LocationGroupLen(low, g, m) ==
    IF ~IsLocationChar(At(low, g + m - 1)) THEN 0
    ELSE IF LocationStopAt(low, g + m) THEN m
    ELSE LocationGroupLen(low, g, m + 1)

\* re.search(location_pattern, prompt, re.IGNORECASE) from position i on,
\* for the preposition "at" or "in": <<group 1>> of the leftmost match, or
\* <<>>.  The group starts with a letter, so \s+ takes all the whitespace.
RECURSIVE LocationSearchFrom(_, _, _, _)
LocationSearchFrom(p, low, word, i) ==
    IF i > Len(p) THEN <<>>
    ELSE LET j == i + Len(word)
             g == SkipSpaces(low, j)
             m == IF IsAlpha(At(low, g)) THEN LocationGroupLen(low, g, 2) ELSE 0
         IN  IF LitAt(low, i, word) /\ WordBoundary(low, i) /\ g > j /\ m > 0
             THEN << SubSeq(p, g, g + m - 1) >>
             ELSE LocationSearchFrom(p, low, word, i + 1)

\* re.sub(r"[,.\s]+$", "", s)
RECURSIVE StripTrailingPunctuation(_)
StripTrailingPunctuation(s) ==
    IF s # "" /\ (IsSpace(At(s, Len(s))) \/ At(s, Len(s)) \in {",", "."})
    THEN StripTrailingPunctuation(SubSeq(s, 1, Len(s) - 1))
    ELSE s

\* re.match(r"^[\d\s:]+$", s)
LooksLikeTime(s) ==
    /\ s # ""
    /\ \A k \in 1..Len(s) : IsDigit(At(s, k)) \/ IsSpace(At(s, k)) \/ At(s, k) = ":"

\* The tests of a cleaned candidate without the comparison with the day
\* names.
ValidLocation_AnyName(location) ==
    /\ Len(location) > 2
    /\ ~LooksLikeTime(location)

\* The tests a cleaned candidate passes to be returned.
ValidLocation(location) ==
    /\ Len(location) > 2
    /\ ~LooksLikeTime(location)
    /\ \A k \in 1..Len(DayNames) : str_lower(location) # DayNames[k]

\* The cleaned candidate of one pattern: <<location>>, or <<>> when the
\* pattern does not match.
LocationCandidate(p, word) ==
    LET match == LocationSearchFrom(p, str_lower(p), word, 1)
    IN  IF match = <<>> THEN <<>>
        ELSE << StripTrailingPunctuation(str_strip(match[1])) >>

\* _extract_location with the "in" pattern tried before the "at" pattern.
ExtractLocation_InFirst(p) ==
    LET first == LocationCandidate(p, "in")
        second == LocationCandidate(p, "at")
    IN  IF first # <<>> /\ ValidLocation(first[1]) THEN first
        ELSE IF second # <<>> /\ ValidLocation(second[1]) THEN second
        ELSE None

\* _extract_location(prompt): the candidate of the "at" pattern when it is
\* valid, else that of the "in" pattern when it is valid, else None.
ExtractLocation(p) ==
    LET first == LocationCandidate(p, "at")
        second == LocationCandidate(p, "in")
    IN  IF first # <<>> /\ ValidLocation(first[1]) THEN first
        ELSE IF second # <<>> /\ ValidLocation(second[1]) THEN second
        ELSE None

\* The character classes of email_pattern; no flag is given, the classes
\* are as written ("|" is in the class [A-Z|a-z]).
IsLocalChar(c) == IsAlpha(c) \/ IsDigit(c) \/ c \in {".", "_", "%", "+", "-"}
IsDomainChar(c) == IsAlpha(c) \/ IsDigit(c) \/ c \in {".", "-"}
IsTldChar(c) == IsAlpha(c) \/ c = "|"

RECURSIVE SkipLocal(_, _)
SkipLocal(s, i) == IF IsLocalChar(At(s, i)) THEN SkipLocal(s, i + 1) ELSE i

RECURSIVE SkipDomain(_, _)
SkipDomain(s, i) == IF IsDomainChar(At(s, i)) THEN SkipDomain(s, i + 1) ELSE i

RECURSIVE SkipTld(_, _)
SkipTld(s, i) == IF IsTldChar(At(s, i)) THEN SkipTld(s, i + 1) ELSE i

Greatest(S) == CHOOSE k \in S : \A j \in S : j <= k

\* email_pattern at position i: the position after the match, 0 when none.
\* The local part runs up to the "@"; the domain is as long as a "." with
\* two or more top-level characters and a word boundary after it allows,
\* and so is the top-level part.
EmailEnd(p, i) ==
    LET a == SkipLocal(p, i)
        d == a + 1
        ends(q) == { e \in (q + 3)..SkipTld(p, q + 1) : WordBoundary(p, e) }
        dots == { q \in (d + 1)..(SkipDomain(p, d) - 1) : At(p, q) = "." /\ ends(q) # {} }
    IN  IF WordBoundary(p, i) /\ a > i /\ At(p, a) = "@" /\ dots # {}
        THEN Greatest(ends(Greatest(dots)))
        ELSE 0

\* re.findall(email_pattern, prompt) from position i on.
RECURSIVE FindAllEmails(_, _)
FindAllEmails(p, i) ==
    IF i > Len(p) THEN <<>>
    ELSE IF EmailEnd(p, i) # 0
         THEN << SubSeq(p, i, EmailEnd(p, i) - 1) >> \o FindAllEmails(p, EmailEnd(p, i))
         ELSE FindAllEmails(p, i + 1)

\* _extract_attendees(prompt)
ExtractAttendees(p) == FindAllEmails(p, 1)

\* _calculate_confidence with the title measured as it was passed, never
\* stripped.
CalculateConfidence_NoStrip(title, start_datetime, end_datetime, location, attendees) ==
    LET title_score == IF Len(title) > 3 THEN 1 ELSE 0
        time_score == IF start_datetime # None /\ end_datetime # None THEN 2
                      ELSE IF start_datetime # None \/ end_datetime # None THEN 1
                      ELSE 0
        location_score == IF location # None /\ location # Some("") THEN 1 ELSE 0
        attendee_score == IF attendees # <<>> THEN 1 ELSE 0
    IN  title_score + time_score + location_score + attendee_score

\* _calculate_confidence scoring the two instants as a pair only: 2 points
\* when both are present, none otherwise.
CalculateConfidence_PairOnly(title, start_datetime, end_datetime, location, attendees) ==
    LET title_score == IF title # "" /\ Len(str_strip(title)) > 3 THEN 1 ELSE 0
        time_score == IF start_datetime # None /\ end_datetime # None THEN 2 ELSE 0
        location_score == IF location # None /\ location # Some("") THEN 1 ELSE 0
        attendee_score == IF attendees # <<>> THEN 1 ELSE 0
    IN  title_score + time_score + location_score + attendee_score

\* _calculate_confidence(title, start_datetime, end_datetime, location,
\* attendees), in fifths: the score of 0..5 points that the source divides
\* by max_score = 5.0 and caps at 1.0.
CalculateConfidence(title, start_datetime, end_datetime, location, attendees) ==
    LET title_score == IF title # "" /\ Len(str_strip(title)) > 3 THEN 1 ELSE 0
        time_score == IF start_datetime # None /\ end_datetime # None THEN 2
                      ELSE IF start_datetime # None \/ end_datetime # None THEN 1
                      ELSE 0
        location_score == IF location # None /\ location # Some("") THEN 1 ELSE 0
        attendee_score == IF attendees # <<>> THEN 1 ELSE 0
        total == title_score + time_score + location_score + attendee_score
    IN  IF total > 5 THEN 5 ELSE total

----------------------------------------------------------------------------
(* The calls and their inputs                                              *)

\* Bounds of the model.
MaxWords == 2
MaxHour == 13
NumDays == 7
\* The first date datetime.now() is drawn from: 2026-11-02, a Monday.
FirstDay == 739922

Days == FirstDay .. (FirstDay + NumDays - 1)

\* The dates the free-form prompts are resolved on: a Monday and a Sunday.
CoreDays == {FirstDay, FirstDay + 6}

\* The phrases free-form prompts are made of.
CoreWords ==
    {"", "Meeting", "tomorrow", "Today", "next  week", "on Monday", "sunday",
     "All Day", "at 3pm", "12:30 AM", "13 pm", "9:75am",
     "for 3 hours", "0 hrs", "99999999 hours", "with John", "schedule"}

\* Every sequence of at most MaxWords phrases of V, separated by one space.
Sentences(V) == { Join(ws) : ws \in UNION { [1..n -> V] : n \in 0..MaxWords } }

CorePrompts == Sentences(CoreWords)

\* str(n) for n >= 0
RECURSIVE NatText(_)
NatText(n) ==
    LET digit == CHOOSE c \in DigitChars : DigitValue[c] = n % 10
    IN  IF n < 10 THEN digit ELSE NatText(n \div 10) \o digit

\* Prompts naming one or two weekdays, in either case.
WeekdayPrompts ==
    LET names == { DayNames[k] : k \in 1..Len(DayNames) }
    IN  { "Meeting on " \o str_title(d) : d \in names }
        \cup { d \o " or " \o e : d \in names, e \in names }

\* Prompts with one time mention, in the short and in the long form.
ClockPrompts ==
    LET meridiems == {"am", "pm", " PM", "AM"}
        minutes == {"00", "07", "30", "59", "60"}
    IN  { NatText(h) \o mer : h \in 0..MaxHour, mer \in meridiems }
        \cup { NatText(h) \o ":" \o m \o mer :
                 h \in 0..MaxHour, m \in minutes, mer \in meridiems }

\* Prompts with one time mention followed by up to two duration phrases.
DurationPrompts ==
    LET clocks == {"at 3pm", "11:30 pm"}
        phrases == {"", "for 3 hours", "0 hrs", "2hr", "25 Hours", "99999999 hours"}
    IN  { Join(<<c, d, e>>) : c \in clocks, d \in phrases, e \in phrases }

\* Prompts of tests/test_ai_service.py, and prompts that say "all day" next
\* to a time and a duration.
ScenarioPrompts ==
    {"Conference all day tomorrow", "Conference next week",
     "Lunch at Cafe Rio tomorrow 12pm", "Meeting at 12:30am tomorrow",
     "Meeting at 1:30pm tomorrow", "Meeting at invalid:time", "Meeting on Monday",
     "Meeting tomorrow at 2:00pm for 3 hours", "Meeting tomorrow at 2pm for 3 hours",
     "Meeting with John tomorrow at 3pm", "meeting tomorrow", "Short",
     "Meeting with John at Cafe Rio tomorrow 3pm", "Meeting on 12/25 with John",
     "Meeting with john@example.com tomorrow at 2pm", "Meeting at 123 tomorrow",
     "This is a very long prompt that should be used as description text",
     "Meeting at 3pm for 99999999 hours", "ALL  DAY at 3pm for 99999999 hours",
     "Meeting at 3:30 pm", "3:30 pm and 3:30 pm", "Call at 13:30 pm or 3:30 pm", "Workshop all\tday 13 pm for 2 hours",
     "Review All Day on friday at 9:30am for 2 hours", "   ",
     "lunch with john", "meeting with John", "schedule team sync",
     "book room for lunch", "gym class call", "lunch lunch dinner lunch",
     "some random text without any keywords or patterns here",
     "Go tomorrow schedule team lunch", "Please schedule lunch at noon",
     "Hi at book the gym", "abc on call with Ann", "ab today",
     "Meeting at AB tomorrow", "Lunch at Monday", "Dinner in Rome with Ann",
     "Meet at AB tomorrow at Cafe Rio", "Meet at AB in Paris today",
     "Lunch in Rome at Cafe Rio", "Stay in sunday at Cafe Rio",
     "Meet at FRIDAY today in Oslo", "Call 3pm or 4:30 pm",
     "hello there", "zzz", "one two three four five six seven", "mondays off",
     "tomorrowland", "ping bob@example.com", "sync at Cafe2", "Project from Bob"}

\* entities = _extract_entities(prompt)
ExtractEntities(p) ==
    [times |-> ExtractTimes(p),
     dates |-> ExtractDates(p),
     locations |-> ExtractLocations(p),
     people |-> ExtractPeople(p),
     keywords |-> ExtractKeywords(p)]

\* No direct call of the confidence scorer is made.
ScorerIdle ==
    /\ args = None
    /\ score = None
    /\ earlier = None

\* No call of the LLM-backed extractor is made.
LLMIdle ==
    /\ user_input = ""
    /\ reply = None
    /\ extraction = None

\* No EventService call is in flight.
SessionsIdle == sessions = <<>>

\* No call of EventService is made: the table stays empty.
StoreIdle ==
    /\ store = {}
    /\ request = None
    /\ outcome = ""
    /\ response = None
    /\ utcnow = 0
    /\ removed = {}

NoEntities ==
    [times |-> <<>>, dates |-> <<>>, locations |-> <<>>, people |-> <<>>,
     keywords |-> <<>>]

Init ==
    /\ \/ prompt \in CorePrompts /\ now \in CoreDays
       \/ prompt \in WeekdayPrompts /\ now \in Days
       \/ prompt \in ClockPrompts /\ now = FirstDay
       \/ prompt \in DurationPrompts /\ now = FirstDay
       \/ prompt \in ScenarioPrompts /\ now \in CoreDays
    /\ entities = NoEntities
    /\ pc = "call"
    /\ error = ""
    /\ draft = None
    /\ resolved = None
    /\ ScorerIdle
    /\ StoreIdle
    /\ LLMIdle
    /\ SessionsIdle

\* await AIService.generate_event_draft(prompt).  Each stage's value is
\* computed once and handed to the stages after it; confidence is held in
\* fifths.
GenerateEventDraft ==
    /\ pc = "call"
    /\ \E extracted_entities \in {ExtractEntities(prompt)} :
       \E title \in {ExtractTitle(prompt, extracted_entities)} :
       \E location \in {ExtractLocation(prompt)} :
       \E attendees \in {ExtractAttendees(prompt)} :
       \E dt \in {ExtractDatetimeInfo(prompt, extracted_entities, now)} :
          IF dt.error # ""
          THEN /\ pc' = "raised"
               /\ error' = dt.error
               /\ draft' = None
          ELSE /\ pc' = "returned"
               /\ error' = ""
               /\ draft' = [title |-> title,
                            description |-> ExtractDescription(prompt),
                            start_datetime |-> dt.start_datetime,
                            end_datetime |-> dt.end_datetime,
                            all_day |-> dt.all_day,
                            location |-> location,
                            attendees |-> attendees,
                            confidence |->
                                CalculateConfidence(title, dt.start_datetime,
                                                    dt.end_datetime, location, attendees),
                            extracted_entities |-> extracted_entities]
    /\ UNCHANGED <<prompt, now, entities, resolved>>
    /\ UNCHANGED scorerVars
    /\ UNCHANGED storeVars
    /\ UNCHANGED llmVars
    /\ UNCHANGED sessions

Next == GenerateEventDraft

Spec == Init /\ [][Next]_vars

----------------------------------------------------------------------------
(* Direct calls of the resolver, as the tests make them                    *)

\* Time mentions written by hand, as test_datetime_extraction_edge_cases
\* writes them: fields may be missing and need not be numeric.
HandMentions ==
    { [hour |-> "invalid", minute |-> "time", am_pm |-> "pm"],
      [hour |-> "3", minute |-> "x0", am_pm |-> "pm"],
      [hour |-> "3", am_pm |-> "pm"],
      [minute |-> "30", am_pm |-> "am"],
      [hour |-> "3", minute |-> "30"],
      [hour |-> "13", minute |-> "0", am_pm |-> "PM"],
      [hour |-> "11", minute |-> "60", am_pm |-> "am"],
      [hour |-> "-1", minute |-> "0", am_pm |-> "am"],
      [hour |-> " 3 ", minute |-> "30", am_pm |-> "PM"] }

ValidMention == [hour |-> "4", minute |-> "15", am_pm |-> "pm"]

\* The bags a direct call is made with: what the scanner finds in the
\* prompt, and the hand-written mentions alone or before a valid one.
BagsFor(p) ==
    { ExtractEntities(p) }
        \cup { [times |-> <<m>>, dates |-> <<>>] : m \in HandMentions }
        \cup { [times |-> <<m, ValidMention>>, dates |-> <<>>] : m \in HandMentions }

ResolverWords ==
    {"", "Meeting at invalid:time", "tomorrow", "all day", "13 pm", "for 2 hours",
     "99999999 hours"}

ResolverPrompts == Sentences(ResolverWords)

InitResolver ==
    /\ prompt \in ResolverPrompts
    /\ now \in CoreDays
    /\ entities \in BagsFor(prompt)
    /\ pc = "call"
    /\ error = ""
    /\ draft = None
    /\ resolved = None
    /\ ScorerIdle
    /\ StoreIdle
    /\ LLMIdle
    /\ SessionsIdle

\* AIService._extract_datetime_info(prompt, entities)
ExtractDatetimeInfoCall ==
    /\ pc = "call"
    /\ \E dt \in {ExtractDatetimeInfo(prompt, entities, now)} :
          IF dt.error # ""
          THEN /\ pc' = "raised"
               /\ error' = dt.error
               /\ resolved' = None
          ELSE /\ pc' = "returned"
               /\ error' = ""
               /\ resolved' = [start_datetime |-> dt.start_datetime,
                               end_datetime |-> dt.end_datetime,
                               all_day |-> dt.all_day]
    /\ UNCHANGED <<prompt, now, entities, draft>>
    /\ UNCHANGED scorerVars
    /\ UNCHANGED storeVars
    /\ UNCHANGED llmVars
    /\ UNCHANGED sessions

NextResolver == ExtractDatetimeInfoCall

SpecResolver == InitResolver /\ [][NextResolver]_vars

----------------------------------------------------------------------------
(* Direct calls of the confidence scorer, as the tests make them           *)

\* The titles a direct call is made with: empty, blank, of 3 and of 4
\* characters, and padded with whitespace.
ScorerTitles ==
    {"", "   ", "abc", "abcd", "Meeting", "Meeting with John", "  ab  ", " abc ",
     " abcd\n", "a b"}

\* An instant for start_datetime and end_datetime.
ScorerInstant == Combine(FirstDay, 10, 17, 3, 5)

ScorerArgs ==
    [title : ScorerTitles,
     start_datetime : {None, Some(ScorerInstant)},
     end_datetime : {None, Some(ScorerInstant), Some(Combine(FirstDay + 1, 0, 0, 0, 0))},
     location : {None, Some(""), Some("Cafe Rio")},
     attendees : {<<>>, <<"john@example.com">>, <<"a@b.co", "c@d.org">>}]

InitConfidence ==
    /\ args \in ScorerArgs
    /\ score = None
    /\ earlier = None
    /\ StoreIdle
    /\ LLMIdle
    /\ SessionsIdle
    /\ prompt = ""
    /\ now = FirstDay
    /\ entities = NoEntities
    /\ pc = "call"
    /\ error = ""
    /\ draft = None
    /\ resolved = None

\* AIService._calculate_confidence(title, start_datetime, end_datetime,
\* location, attendees)
CalculateConfidenceCall ==
    /\ pc = "call"
    /\ pc' = "returned"
    /\ score' = Some(CalculateConfidence(args.title, args.start_datetime,
                                         args.end_datetime, args.location,
                                         args.attendees))
    /\ UNCHANGED <<prompt, now, entities, error, draft, resolved, args, earlier>>
    /\ UNCHANGED storeVars
    /\ UNCHANGED llmVars
    /\ UNCHANGED sessions

\* A second call, with other arguments, whose score is compared with the
\* first one's (as test_calculate_confidence compares its three calls).
CallAgain ==
    /\ pc = "returned"
    /\ score # None
    /\ earlier = None
    /\ earlier' = Some([args |-> args, score |-> score[1]])
    /\ args' \in ScorerArgs
    /\ score' = None
    /\ pc' = "call"
    /\ UNCHANGED <<prompt, now, entities, error, draft, resolved>>
    /\ UNCHANGED storeVars
    /\ UNCHANGED llmVars
    /\ UNCHANGED sessions

NextConfidence == CalculateConfidenceCall \/ CallAgain

SpecConfidence == InitConfidence /\ [][NextConfidence]_vars

----------------------------------------------------------------------------
(* The event store: EventService over the events table                     *)

\* The instants of the store are 0..MaxTime; the table holds MaxEvents rows
\* at most.
MaxTime == 2
MaxEvents == 2
\* The writes (rows stored or updated) a behaviour makes at most.
MaxWrites == 3

Instants == 0..MaxTime
EventTitles == {"Standup", "Offsite"}

\* EventCreate: the schema's validator (validate_datetime_logic) rejects
\* end_datetime <= start_datetime, so a request holds end after start.
EventCreates ==
    { e \in [title : EventTitles, start_datetime : Instants,
             end_datetime : Instants, all_day : BOOLEAN] :
          e.end_datetime > e.start_datetime }

\* The where-clause with the comparisons of its first two branches made
\* inclusive on both sides.
OverlapClause_Inclusive(e, start_datetime, end_datetime) ==
    /\ e.all_day
    /\ \/ e.start_datetime <= start_datetime /\ e.end_datetime >= start_datetime
       \/ e.start_datetime <= end_datetime /\ e.end_datetime >= end_datetime
       \/ e.start_datetime >= start_datetime /\ e.end_datetime <= end_datetime

\* The where-clause of _check_all_day_overlap for the row e and the
\* interval from start_datetime to end_datetime.
OverlapClause(e, start_datetime, end_datetime) ==
    /\ e.all_day
    /\ \/ e.start_datetime <= start_datetime /\ e.end_datetime > start_datetime
       \/ e.start_datetime < end_datetime /\ e.end_datetime >= end_datetime
       \/ e.start_datetime >= start_datetime /\ e.end_datetime <= end_datetime

\* A check that looks only for stored all-day events lying inside the new
\* interval.
CheckAllDayOverlap_InsideOnly(rows, start_datetime, end_datetime, exclude_event_id) ==
    \E e \in rows :
        /\ e.all_day
        /\ e.start_datetime >= start_datetime /\ e.end_datetime <= end_datetime
        /\ exclude_event_id \notin {None, Some(0)} => e.id # exclude_event_id[1]

\* _check_all_day_overlap(session, start_datetime, end_datetime,
\* exclude_event_id): TRUE when it raises ConflictError.  exclude_event_id
\* is None (<<>>) or an id; `if exclude_event_id:` skips None and 0.
CheckAllDayOverlap(rows, start_datetime, end_datetime, exclude_event_id) ==
    \E e \in rows :
        /\ OverlapClause(e, start_datetime, end_datetime)
        /\ exclude_event_id \notin {None, Some(0)} => e.id # exclude_event_id[1]

\* A test that lets an update through whose end is its start.
EndNotAfterStart_BeforeOnly(start_dt, end_dt) == end_dt < start_dt

\* update_event's test of the resulting instants: end_dt <= start_dt.
EndNotAfterStart(start_dt, end_dt) == end_dt <= start_dt

\* The unique constraint uq_events_title_start_end of the events table.
BreaksUniqueConstraint(rows, e) ==
    \E r \in rows : /\ r.title = e.title
                     /\ r.start_datetime = e.start_datetime
                     /\ r.end_datetime = e.end_datetime

\* The id the table gives a new row: one more than the greatest id in use.
NewId(rows) ==
    IF rows = {} THEN 1 ELSE 1 + Greatest({ r.id : r \in rows })

\* EventUpdate: every field is optional and no validator runs; None is a
\* field left unset or set to null.
EventUpdates ==
    [title : {None, Some("Offsite")},
     start_datetime : {None} \cup { Some(i) : i \in Instants },
     end_datetime : {None} \cup { Some(i) : i \in Instants },
     all_day : {None, Some(TRUE), Some(FALSE)}]

\* The ids a call is made with: those the table can hold and one it cannot.
EventIds == 1..(MaxEvents + 1)

\* The variables of the extractor, which the store does not use.
extractorVars == <<prompt, now, entities, pc, error, draft, resolved>>

ExtractorIdle ==
    /\ prompt = ""
    /\ now = FirstDay
    /\ entities = NoEntities
    /\ pc = "idle"
    /\ error = ""
    /\ draft = None
    /\ resolved = None

InitStore ==
    /\ StoreIdle
    /\ LLMIdle
    /\ SessionsIdle
    /\ ExtractorIdle
    /\ ScorerIdle

\* await EventService.create_event(session, event_data): the overlap check
\* for an all-day event, then the insert and its commit.  Calls are made
\* while the clock leaves room for a write, and a row is stored only while
\* the table leaves room for it.
CreateEvent ==
    /\ utcnow < MaxWrites
    /\ \E event_data \in EventCreates :
          /\ request' = Some([op |-> "create_event", event_data |-> event_data,
                              rows |-> store])
          /\ IF /\ event_data.all_day
                /\ CheckAllDayOverlap(store, event_data.start_datetime,
                                      event_data.end_datetime, None)
             THEN /\ outcome' = "ConflictError"
                  /\ response' = None
                  /\ UNCHANGED <<store, utcnow>>
             ELSE IF BreaksUniqueConstraint(store, event_data)
             THEN /\ outcome' = "IntegrityError"
                  /\ response' = None
                  /\ UNCHANGED <<store, utcnow>>
             ELSE /\ Cardinality(store) < MaxEvents
                  /\ \E event \in { [id |-> NewId(store), title |-> event_data.title,
                                     start_datetime |-> event_data.start_datetime,
                                     end_datetime |-> event_data.end_datetime,
                                     all_day |-> event_data.all_day,
                                     updated_at |-> utcnow + 1] } :
                        /\ outcome' = "ok"
                        /\ response' = Some(event)
                        /\ store' = store \cup {event}
                        /\ utcnow' = utcnow + 1
    /\ UNCHANGED removed
    /\ UNCHANGED extractorVars
    /\ UNCHANGED llmVars
    /\ UNCHANGED sessions
    /\ UNCHANGED scorerVars

\* select(Event).where(Event.id == event_id), result.first(): <<row>> or <<>>.
FindEvent(rows, event_id) ==
    IF \E r \in rows : r.id = event_id
    THEN Some(CHOOSE r \in rows : r.id = event_id)
    ELSE None

\* await EventService.get_event(session, event_id)
GetEvent ==
    /\ \E event_id \in EventIds :
          /\ request' = Some([op |-> "get_event", event_id |-> event_id, rows |-> store,
                              gone |-> removed])
          /\ response' = FindEvent(store, event_id)
          /\ outcome' = IF FindEvent(store, event_id) = None THEN "NotFoundError" ELSE "ok"
    /\ UNCHANGED <<store, utcnow, removed>>
    /\ UNCHANGED extractorVars
    /\ UNCHANGED llmVars
    /\ UNCHANGED sessions
    /\ UNCHANGED scorerVars

\* event_data.model_dump(exclude_unset=True, exclude_none=True): the names
\* of the fields that hold a value.
UpdateData(event_data) == { f \in DOMAIN event_data : event_data[f] # None }

\* update_data.get(field, stored value) that never looks at the request.
Resulting_StoredOnly(event_data, event, field) == event[field]

\* update_data.get(field, stored value)
Resulting(event_data, event, field) ==
    IF event_data[field] # None THEN event_data[field][1] ELSE event[field]

\* The row after the setattr loop, with updated_at left as it was.
Updated_KeepsStamp(event, event_data, stamp) ==
    [id |-> event.id,
     title |-> Resulting(event_data, event, "title"),
     start_datetime |-> Resulting(event_data, event, "start_datetime"),
     end_datetime |-> Resulting(event_data, event, "end_datetime"),
     all_day |-> Resulting(event_data, event, "all_day"),
     updated_at |-> event.updated_at]

\* The row after `for field, value in update_data.items(): setattr(...)` and
\* event.updated_at = datetime.utcnow().
Updated(event, event_data, stamp) ==
    [id |-> event.id,
     title |-> Resulting(event_data, event, "title"),
     start_datetime |-> Resulting(event_data, event, "start_datetime"),
     end_datetime |-> Resulting(event_data, event, "end_datetime"),
     all_day |-> Resulting(event_data, event, "all_day"),
     updated_at |-> stamp]

\* await EventService.update_event(session, event_id, event_data).  Calls
\* are made while the clock leaves room for a write.
UpdateEvent ==
    /\ utcnow < MaxWrites
    /\ \E event_id \in EventIds, event_data \in EventUpdates :
          /\ request' = Some([op |-> "update_event", event_id |-> event_id,
                              event_data |-> event_data, rows |-> store,
                              gone |-> removed])
          /\ \E found \in {FindEvent(store, event_id)} :
                IF found = None
                THEN /\ outcome' = "NotFoundError"
                     /\ response' = None
                     /\ UNCHANGED <<store, utcnow>>
                ELSE IF UpdateData(event_data) = {}
                THEN /\ outcome' = "ok"
                     /\ response' = found
                     /\ UNCHANGED <<store, utcnow>>
                ELSE IF EndNotAfterStart(Resulting(event_data, found[1], "start_datetime"),
                                         Resulting(event_data, found[1], "end_datetime"))
                THEN /\ outcome' = "ConflictError"
                     /\ response' = None
                     /\ UNCHANGED <<store, utcnow>>
                ELSE IF /\ Resulting(event_data, found[1], "all_day")
                        /\ CheckAllDayOverlap(store,
                               Resulting(event_data, found[1], "start_datetime"),
                               Resulting(event_data, found[1], "end_datetime"),
                               Some(event_id))
                THEN /\ outcome' = "ConflictError"
                     /\ response' = None
                     /\ UNCHANGED <<store, utcnow>>
                ELSE IF BreaksUniqueConstraint(store \ {found[1]},
                                               Updated(found[1], event_data, 0))
                THEN /\ outcome' = "IntegrityError"
                     /\ response' = None
                     /\ UNCHANGED <<store, utcnow>>
                ELSE /\ outcome' = "ok"
                     /\ response' = Some(Updated(found[1], event_data, utcnow + 1))
                     /\ store' = (store \ {found[1]})
                                    \cup {Updated(found[1], event_data, utcnow + 1)}
                     /\ utcnow' = utcnow + 1
    /\ UNCHANGED removed
    /\ UNCHANGED extractorVars
    /\ UNCHANGED llmVars
    /\ UNCHANGED sessions
    /\ UNCHANGED scorerVars

\* await EventService.delete_event(session, event_id)
DeleteEvent ==
    /\ \E event_id \in EventIds :
          /\ request' = Some([op |-> "delete_event", event_id |-> event_id, rows |-> store,
                              gone |-> removed])
          /\ response' = None
          /\ \E found \in {FindEvent(store, event_id)} :
                IF found = None
                THEN /\ outcome' = "NotFoundError"
                     /\ UNCHANGED <<store, removed>>
                ELSE /\ outcome' = "ok"
                     /\ store' = store \ {found[1]}
                     /\ removed' = removed \cup {event_id}
    /\ UNCHANGED utcnow
    /\ UNCHANGED extractorVars
    /\ UNCHANGED llmVars
    /\ UNCHANGED sessions
    /\ UNCHANGED scorerVars

NextStore == CreateEvent \/ GetEvent \/ UpdateEvent \/ DeleteEvent

SpecStore == InitStore /\ [][NextStore]_vars

(***************************************************************************)
(* EventService.list_events: a query over the stored rows                  *)
(***************************************************************************)
\* The rows of the table that is listed, the pages and the page sizes asked.
MaxRows == 3
MaxPage == 3
MaxSize == 2

\* The (title, start, end) of a stored row: end after start (EventBase).
RowShapes ==
    { s \in [title : EventTitles, start_datetime : Instants, end_datetime : Instants] :
        s.end_datetime > s.start_datetime }

\* A table of timed events: ids are distinct and no two rows have the same
\* title, start and end (uq_events_title_start_end).
ListedTables ==
    { t \in UNION { { { [id |-> i, title |-> f[i].title,
                         start_datetime |-> f[i].start_datetime,
                         end_datetime |-> f[i].end_datetime,
                         all_day |-> FALSE, updated_at |-> 1] : i \in D } :
                      f \in [1..MaxRows -> RowShapes] } :
                    D \in SUBSET (1..MaxRows) } :
        \A r1 \in t, r2 \in t :
            r1.title = r2.title /\ r1.start_datetime = r2.start_datetime
              /\ r1.end_datetime = r2.end_datetime => r1 = r2 }

\* The from and to of a call: absent, or an instant inside the range.
FromDates == {None} \cup {Some(i) : i \in 1..(MaxTime - 1)}
Queries == {None, Some(""), Some("stand"), Some("SITE")}

\* column ILIKE '%query%': the column holds the query, whatever the case of
\* the letters.  No row of the model has a description or a location (both
\* NULL), so only the title can match.
ILike(column, query) == Contains(str_lower(column), str_lower(query))

\* The where-clause of the statement: each filter is added only if its
\* argument is truthy (a datetime always is, an empty query is not).
Filters(e, from_date, to_date, query) ==
    /\ from_date # None => e.start_datetime >= from_date[1]
    /\ to_date # None => e.end_datetime <= to_date[1]
    /\ query # None /\ query[1] # "" => ILike(e.title, query[1])

\* ORDER BY start_datetime: rows with the same start come in the order of
\* their rowid, which is the id.
RECURSIVE OrderByStart(_)
OrderByStart(rows) ==
    IF rows = {} THEN <<>>
    ELSE LET head == CHOOSE r \in rows : \A o \in rows :
                        \/ r.start_datetime < o.start_datetime
                        \/ r.start_datetime = o.start_datetime /\ r.id <= o.id
         IN  <<head>> \o OrderByStart(rows \ {head})

\* The rows in the order of their rowid.
RECURSIVE OrderById(_)
OrderById(rows) ==
    IF rows = {} THEN <<>>
    ELSE LET head == CHOOSE r \in rows : \A o \in rows : r.id <= o.id
         IN  <<head>> \o OrderById(rows \ {head})

Range(seq) == { seq[i] : i \in DOMAIN seq }

\* OFFSET offset LIMIT size of a sequence of rows.
OffsetLimit(seq, offset, size) ==
    SubSeq(seq, offset + 1, IF offset + size < Len(seq) THEN offset + size ELSE Len(seq))

\* A statement that would cut the block out of the table first and sort the
\* block afterwards.
ListPage_LimitFirst(rows, from_date, to_date, query, page, size) ==
    LET matching == { e \in rows : Filters(e, from_date, to_date, query) }
        offset == (page - 1) * size
    IN  [events |-> OrderByStart(Range(OffsetLimit(OrderById(matching), offset, size))),
         total |-> Cardinality(matching)]

\* list_events: the count of the filtered statement, then the statement with
\* OFFSET, LIMIT and ORDER BY (SQL sorts before it cuts, whatever the order
\* of the calls that build the statement).
ListPage(rows, from_date, to_date, query, page, size) ==
    LET matching == { e \in rows : Filters(e, from_date, to_date, query) }
        offset == (page - 1) * size
    IN  [events |-> OffsetLimit(OrderByStart(matching), offset, size),
         total |-> Cardinality(matching)]

InitList ==
    /\ store \in ListedTables
    /\ request = None /\ outcome = "" /\ response = None
    /\ utcnow = 1 /\ removed = {}
    /\ LLMIdle
    /\ SessionsIdle
    /\ ExtractorIdle
    /\ ScorerIdle

ListEvents ==
    /\ \E from_date \in FromDates, to_date \in FromDates, query \in Queries,
          page \in 1..MaxPage, size \in 1..MaxSize :
          /\ request' = Some([op |-> "list_events", from_date |-> from_date,
                              to_date |-> to_date, query |-> query,
                              page |-> page, size |-> size, rows |-> store])
          /\ response' = Some(ListPage(store, from_date, to_date, query, page, size))
          /\ outcome' = "ok"
    /\ UNCHANGED <<store, utcnow, removed>>
    /\ UNCHANGED extractorVars
    /\ UNCHANGED llmVars
    /\ UNCHANGED sessions
    /\ UNCHANGED scorerVars

NextList == ListEvents

SpecList == InitList /\ [][NextList]_vars

(***************************************************************************)
(* LLMEventExtractor.extract_event_data and its rule-based fallback        *)
(***************************************************************************)
\* The texts handed to the extractor.
UserInputs ==
    {"Team MEETING with John", "lunch", "Call with  !", "conference call",
     "Dinner With ann@x.io tomorrow", "", "with", "Meet with !",
     "Lunch meeting\twith\n Bob and Eve."}

\* The texts the model of the LLM answers with.
ReplyContents ==
    {"{\"title\": \"Team sync\", \"all_day\": false, \"confidence\": 0.9}",
     "Sure! Here is the event: {\"title\": \"Team sync\"} Hope it helps.",
     "{\"title\": \"Sync\", \"start_datetime\": \"2024-01-01T10:00:00\", \"end_datetime\": \"2024-01-01T09:00:00\", \"all_day\": true, \"extra\": 1}",
     "I could not find an event.",
     "",
     "\"title\": \"Team sync\"}",
     "{\"title\": \"Team sync\",",
     "} {",
     "{\"title\": \"Team sync\", }",
     "{title: Team sync}",
     "{\"a\": 1} and {\"b\": 2}",
     "{\"description\": \"no title\"}",
     "{}",
     "{\"title\": null}",
     "{\"title\": 5}",
     "{\"title\": \"Sync\", \"attendees\": \"Ann\"}",
     "{\"title\": \"Sync\", \"attendees\": [\"Ann\", 7]}",
     "{\"title\": \"Sync\", \"confidence\": \"high\"}",
     "{\"title\": \"Sync\", \"all_day\": \"maybe\"}",
     "{\"title\": \"Sync\", \"location\": [\"Rome\"]}"}

\* What self.client.chat(...) can do: raise ollama.ResponseError, raise any
\* other exception (no server to connect to), return a response without a
\* message, or return a response whose message has a content.
ChatOutcomes ==
    {[kind |-> "ResponseError"], [kind |-> "ConnectionError"], [kind |-> "no message"]}
      \cup {[kind |-> "content", content |-> c] : c \in ReplyContents}

\* JSON values, each with its type.
JStr(s) == [type |-> "str", str |-> s]
JNum(tenths) == [type |-> "num", tenths |-> tenths]
JBool(b) == [type |-> "bool", bool |-> b]
JNull == [type |-> "null"]
JList(items) == [type |-> "list", items |-> items]

\* json.loads over the texts the search can cut out of the replies: the
\* object a text denotes, as returned by Python's json module.  Every other
\* text of the model raises JSONDecodeError.
JsonObjects ==
    "{\"title\": \"Team sync\", \"all_day\": false, \"confidence\": 0.9}" :>
        [title |-> JStr("Team sync"), all_day |-> JBool(FALSE), confidence |-> JNum(9)]
    @@ "{\"title\": \"Team sync\"}" :> [title |-> JStr("Team sync")]
    @@ "{\"title\": \"Sync\", \"start_datetime\": \"2024-01-01T10:00:00\", \"end_datetime\": \"2024-01-01T09:00:00\", \"all_day\": true, \"extra\": 1}" :>
        [title |-> JStr("Sync"), start_datetime |-> JStr("2024-01-01T10:00:00"),
         end_datetime |-> JStr("2024-01-01T09:00:00"), all_day |-> JBool(TRUE),
         extra |-> JNum(10)]
    @@ "{\"description\": \"no title\"}" :> [description |-> JStr("no title")]
    @@ "{}" :> <<>>
    @@ "{\"title\": null}" :> [title |-> JNull]
    @@ "{\"title\": 5}" :> [title |-> JNum(50)]
    @@ "{\"title\": \"Sync\", \"attendees\": \"Ann\"}" :>
        [title |-> JStr("Sync"), attendees |-> JStr("Ann")]
    @@ "{\"title\": \"Sync\", \"attendees\": [\"Ann\", 7]}" :>
        [title |-> JStr("Sync"), attendees |-> JList(<<JStr("Ann"), JNum(70)>>)]
    @@ "{\"title\": \"Sync\", \"confidence\": \"high\"}" :>
        [title |-> JStr("Sync"), confidence |-> JStr("high")]
    @@ "{\"title\": \"Sync\", \"all_day\": \"maybe\"}" :>
        [title |-> JStr("Sync"), all_day |-> JStr("maybe")]
    @@ "{\"title\": \"Sync\", \"location\": [\"Rome\"]}" :>
        [title |-> JStr("Sync"), location |-> JList(<<JStr("Rome")>>)]

\* json.loads(json_str): <<object>>, or <<>> when it raises JSONDecodeError.
JsonLoads(json_str) ==
    IF json_str \in DOMAIN JsonObjects THEN <<JsonObjects[json_str]>> ELSE <<>>

\* The last position of s that holds c, 0 if none.
RECURSIVE LastIndexOf(_, _, _)
LastIndexOf(s, c, i) ==
    IF i = 0 THEN 0
    ELSE IF At(s, i) = c THEN i
    ELSE LastIndexOf(s, c, i - 1)

\* re.search(r'\{.*\}', response_content, re.DOTALL): from the first "{" to
\* the last "}" after it; <<>> when there is none.
JsonSearch(response_content) ==
    LET open == str_find(response_content, "{") + 1
        close == LastIndexOf(response_content, "}", Len(response_content))
    IN  IF open > 0 /\ close > open
        THEN <<SubSeq(response_content, open, close)>>
        ELSE <<>>

\* A value a field of type "str | None" takes.
FitsOptionalStr(v) == v.type \in {"str", "null"}

\* A value a field of type list[str] takes.
FitsStrList(v) ==
    /\ v.type = "list"
    /\ \A k \in 1..Len(v.items) : v.items[k].type = "str"

\* EventExtraction(**extracted_data) of pydantic: <<model>>, or <<>> when the
\* validation raises.  title is required and a string; every other field has
\* a default; keys that are no field are ignored.
EventExtraction(extracted_data) ==
    LET has(f) == f \in DOMAIN extracted_data
        text(f) == IF has(f) /\ extracted_data[f].type = "str"
                   THEN Some(extracted_data[f].str) ELSE None
    IN  IF /\ has("title") /\ extracted_data["title"].type = "str"
           /\ \A f \in {"description", "start_datetime", "end_datetime", "location"} :
                 has(f) => FitsOptionalStr(extracted_data[f])
           /\ has("all_day") => extracted_data["all_day"].type = "bool"
           /\ has("attendees") => FitsStrList(extracted_data["attendees"])
           /\ has("confidence") => extracted_data["confidence"].type = "num"
           /\ has("reasoning") => extracted_data["reasoning"].type = "str"
        THEN << [title |-> extracted_data["title"].str,
                 description |-> text("description"),
                 start_datetime |-> text("start_datetime"),
                 end_datetime |-> text("end_datetime"),
                 all_day |-> IF has("all_day") THEN extracted_data["all_day"].bool ELSE FALSE,
                 location |-> text("location"),
                 attendees |-> IF has("attendees")
                               THEN [k \in 1..Len(extracted_data["attendees"].items) |->
                                        extracted_data["attendees"].items[k].str]
                               ELSE <<>>,
                 confidence |-> IF has("confidence")
                                THEN extracted_data["confidence"].tenths ELSE 0,
                 reasoning |-> IF has("reasoning")
                               THEN extracted_data["reasoning"].str ELSE ""] >>
        ELSE <<>>

\* [\w\s@.]
IsPersonChar(c) == IsWordChar(c) \/ IsSpace(c) \/ c \in {"@", "."}

\* Greedy [\w\s@.]*: the first position from i on that holds no such
\* character.
RECURSIVE SkipPerson(_, _)
SkipPerson(s, i) == IF IsPersonChar(At(s, i)) THEN SkipPerson(s, i + 1) ELSE i

\* re.search(r'with\s+([\w\s@.]+)', user_input, re.IGNORECASE) from position
\* i on: <<group 1>> of the first match, <<>> when there is none.  The
\* whitespace after "with" is taken greedily, and when nothing for the group
\* follows it, the last whitespace character is given back to the group.
RECURSIVE WithSearch(_, _, _)
WithSearch(s, low, i) ==
    IF i + 3 > Len(s) THEN <<>>
    ELSE LET k == SkipSpaces(s, i + 4)
             e == SkipPerson(s, k)
         IN  IF LitAt(low, i, "with") /\ k > i + 4 /\ e > k
             THEN <<SubSeq(s, k, e - 1)>>
             ELSE IF LitAt(low, i, "with") /\ k > i + 5
             THEN <<SubSeq(s, k - 1, k - 1)>>
             ELSE WithSearch(s, low, i + 1)

\* _fallback_extraction with a title that is the person alone.
FallbackExtraction_PersonOnly(input) ==
    LET with_match == WithSearch(input, str_lower(input), 1)
    IN  [title |-> IF with_match # <<>> THEN str_strip(with_match[1]) ELSE "New Event",
         description |-> Some(input),
         start_datetime |-> None, end_datetime |-> None, all_day |-> FALSE,
         location |-> None, attendees |-> <<>>, confidence |-> 3,
         reasoning |-> "Fallback rule-based extraction used due to LLM unavailability"]

\* _fallback_extraction(user_input); the confidence is in tenths.
FallbackExtraction(input) ==
    LET low == str_lower(input)
        title == IF Contains(low, "meeting") THEN "Meeting"
                 ELSE IF Contains(low, "lunch") THEN "Lunch"
                 ELSE IF Contains(low, "call") THEN "Call"
                 ELSE IF Contains(low, "conference") THEN "Conference"
                 ELSE "New Event"
        with_match == WithSearch(input, low, 1)
    IN  [title |-> IF with_match # <<>>
                   THEN title \o " with " \o str_strip(with_match[1])
                   ELSE title,
         description |-> Some(input),
         start_datetime |-> None, end_datetime |-> None, all_day |-> FALSE,
         location |-> None, attendees |-> <<>>, confidence |-> 3,
         reasoning |-> "Fallback rule-based extraction used due to LLM unavailability"]

\* The body of extract_event_data once client.chat has done r: every
\* exception raised inside the try block ends in the fallback.
ExtractEventData(input, r) ==
    IF r.kind # "content" THEN FallbackExtraction(input)
    ELSE LET response_content == str_strip(r.content)
             json_match == JsonSearch(response_content)
             extracted_data == IF json_match = <<>> THEN <<>> ELSE JsonLoads(json_match[1])
             model == IF extracted_data = <<>> THEN <<>> ELSE EventExtraction(extracted_data[1])
         IN  IF model # <<>> THEN model[1] ELSE FallbackExtraction(input)

InitLLM ==
    /\ user_input \in UserInputs
    /\ reply = None
    /\ extraction = None
    /\ SessionsIdle
    /\ StoreIdle
    /\ ExtractorIdle
    /\ ScorerIdle

\* extractor.extract_event_data(user_input), with the LLM doing r.
ExtractEventDataCall ==
    /\ extraction = None
    /\ \E r \in ChatOutcomes :
          /\ reply' = Some(r)
          /\ extraction' = Some(ExtractEventData(user_input, r))
    /\ UNCHANGED user_input
    /\ UNCHANGED sessions
    /\ UNCHANGED storeVars
    /\ UNCHANGED extractorVars
    /\ UNCHANGED scorerVars

\* The next call, with another text.
NextInput ==
    /\ extraction # None
    /\ user_input' \in UserInputs
    /\ reply' = None
    /\ extraction' = None
    /\ UNCHANGED sessions
    /\ UNCHANGED storeVars
    /\ UNCHANGED extractorVars
    /\ UNCHANGED scorerVars

NextLLM == ExtractEventDataCall \/ NextInput

SpecLLM == InitLLM /\ [][NextLLM]_vars

(***************************************************************************)
(* EventService calls that interleave: each request has a database session *)
(* of its own (get_session), and every await of a call is a step at which  *)
(* the other request may run.                                              *)
(***************************************************************************)
\* The requests served at the same time.
MaxSessions == 2
SessionIds == 1..MaxSessions

\* The events the concurrent requests create: the all-day ones, and a timed
\* one.
RaceCreates ==
    { e \in EventCreates : e.all_day \/ (e.title = "Standup" /\ e.start_datetime = 0) }

\* The updates the concurrent requests ask for: they move the start to the
\* first instant, the end to the last, or make the event all-day.
RaceUpdates ==
    { u \in EventUpdates :
        /\ u.title = None
        /\ u.start_datetime \in {None, Some(0)}
        /\ u.end_datetime \in {None, Some(MaxTime)}
        /\ u.all_day \in {None, Some(TRUE)} }

Idle == [pc |-> "idle"]

\* The calls that have passed their first await and have not returned.
InFlight == { s \in SessionIds : sessions[s].pc \in {"check", "commit"} }

\* A call may start while the writes it and the calls in flight may make
\* stay within the bound.
MayStart == utcnow + Cardinality(InFlight) < MaxWrites

InitConcurrent ==
    /\ sessions = [s \in SessionIds |-> Idle]
    /\ StoreIdle
    /\ LLMIdle
    /\ ExtractorIdle
    /\ ScorerIdle

\* create_event up to its first await that writes: the overlap check of an
\* all-day event (lines 24-27), which reads the committed rows.
CheckCreate(s) ==
    /\ sessions[s].pc = "idle"
    /\ MayStart
    /\ Cardinality(store) + Cardinality(InFlight) < MaxEvents
    /\ \E event_data \in RaceCreates :
          sessions' = [sessions EXCEPT ![s] =
              IF event_data.all_day
                 /\ CheckAllDayOverlap(store, event_data.start_datetime,
                                       event_data.end_datetime, None)
              THEN [pc |-> "done", op |-> "create_event", event_data |-> event_data,
                    outcome |-> "ConflictError"]
              ELSE [pc |-> "commit", op |-> "create_event", event_data |-> event_data]]
    /\ UNCHANGED storeVars
    /\ UNCHANGED extractorVars
    /\ UNCHANGED llmVars
    /\ UNCHANGED scorerVars

\* create_event from session.add to the commit (lines 30-34): the row is
\* inserted, unless the unique constraint refuses it.
CommitCreate(s) ==
    /\ sessions[s].pc = "commit"
    /\ sessions[s].op = "create_event"
    /\ \E event_data \in {sessions[s].event_data} :
          IF BreaksUniqueConstraint(store, event_data)
          THEN /\ sessions' = [sessions EXCEPT ![s] =
                      [pc |-> "done", op |-> "create_event", event_data |-> event_data,
                       outcome |-> "IntegrityError"]]
               /\ UNCHANGED <<store, utcnow>>
          ELSE /\ sessions' = [sessions EXCEPT ![s] =
                      [pc |-> "done", op |-> "create_event", event_data |-> event_data,
                       outcome |-> "ok"]]
               /\ store' = store \cup
                      {[id |-> NewId(store), title |-> event_data.title,
                        start_datetime |-> event_data.start_datetime,
                        end_datetime |-> event_data.end_datetime,
                        all_day |-> event_data.all_day, updated_at |-> utcnow + 1]}
               /\ utcnow' = utcnow + 1
    /\ UNCHANGED <<request, outcome, response, removed>>
    /\ UNCHANGED extractorVars
    /\ UNCHANGED llmVars
    /\ UNCHANGED scorerVars

\* update_event up to its overlap check (lines 104-119): the event is read,
\* the resulting instants are compared, and an event that is or becomes
\* all-day goes on to the check.
GetForUpdate(s) ==
    /\ sessions[s].pc = "idle"
    /\ MayStart
    /\ \E event_id \in EventIds, event_data \in RaceUpdates :
       \E found \in {FindEvent(store, event_id)} :
          sessions' = [sessions EXCEPT ![s] =
              IF found = None
              THEN [pc |-> "done", op |-> "update_event", event_id |-> event_id,
                    event_data |-> event_data, outcome |-> "NotFoundError"]
              ELSE IF UpdateData(event_data) = {}
              THEN [pc |-> "done", op |-> "update_event", event_id |-> event_id,
                    event_data |-> event_data, outcome |-> "ok"]
              ELSE IF EndNotAfterStart(Resulting(event_data, found[1], "start_datetime"),
                                       Resulting(event_data, found[1], "end_datetime"))
              THEN [pc |-> "done", op |-> "update_event", event_id |-> event_id,
                    event_data |-> event_data, outcome |-> "ConflictError"]
              ELSE [pc |-> IF Resulting(event_data, found[1], "all_day")
                           THEN "check" ELSE "commit",
                    op |-> "update_event", event_id |-> event_id,
                    event_data |-> event_data, event |-> found[1]]]
    /\ UNCHANGED storeVars
    /\ UNCHANGED extractorVars
    /\ UNCHANGED llmVars
    /\ UNCHANGED scorerVars

\* update_event's overlap check (lines 120-125), made with the instants of
\* the event as this session read it.
CheckUpdate(s) ==
    /\ sessions[s].pc = "check"
    /\ \E call \in {sessions[s]} :
          sessions' = [sessions EXCEPT ![s] =
              IF CheckAllDayOverlap(store,
                     Resulting(call.event_data, call.event, "start_datetime"),
                     Resulting(call.event_data, call.event, "end_datetime"),
                     Some(call.event_id))
              THEN [pc |-> "done", op |-> "update_event", event_id |-> call.event_id,
                    event_data |-> call.event_data, outcome |-> "ConflictError"]
              ELSE [call EXCEPT !.pc = "commit"]]
    /\ UNCHANGED storeVars
    /\ UNCHANGED extractorVars
    /\ UNCHANGED llmVars
    /\ UNCHANGED scorerVars

\* The row an UPDATE leaves: the columns whose value this session changed
\* on the event it read, and updated_at; every other column as it is stored.
Flushed(stored, call, stamp) ==
    [f \in DOMAIN stored |->
        IF f = "updated_at" THEN stamp
        ELSE IF f \in UpdateData(call.event_data) /\ call.event_data[f][1] # call.event[f]
        THEN call.event_data[f][1]
        ELSE stored[f]]

\* update_event from the setattr loop to the commit (lines 127-132).
CommitUpdate(s) ==
    /\ sessions[s].pc = "commit"
    /\ sessions[s].op = "update_event"
    /\ \E call \in {sessions[s]} :
       \E stored \in {r \in store : r.id = call.event_id} :
          IF BreaksUniqueConstraint(store \ {stored}, Flushed(stored, call, 0))
          THEN /\ sessions' = [sessions EXCEPT ![s] =
                      [pc |-> "done", op |-> "update_event", event_id |-> call.event_id,
                       event_data |-> call.event_data, outcome |-> "IntegrityError"]]
               /\ UNCHANGED <<store, utcnow>>
          ELSE /\ sessions' = [sessions EXCEPT ![s] =
                      [pc |-> "done", op |-> "update_event", event_id |-> call.event_id,
                       event_data |-> call.event_data, outcome |-> "ok"]]
               /\ store' = (store \ {stored}) \cup {Flushed(stored, call, utcnow + 1)}
               /\ utcnow' = utcnow + 1
    /\ UNCHANGED <<request, outcome, response, removed>>
    /\ UNCHANGED extractorVars
    /\ UNCHANGED llmVars
    /\ UNCHANGED scorerVars

\* The response is sent; the next request gets a new session.
Return(s) ==
    /\ sessions[s].pc = "done"
    /\ sessions' = [sessions EXCEPT ![s] = Idle]
    /\ UNCHANGED storeVars
    /\ UNCHANGED extractorVars
    /\ UNCHANGED llmVars
    /\ UNCHANGED scorerVars

NextConcurrent ==
    \E s \in SessionIds :
        \/ CheckCreate(s)
        \/ CommitCreate(s)
        \/ GetForUpdate(s)
        \/ CheckUpdate(s)
        \/ CommitUpdate(s)
        \/ Return(s)

SpecConcurrent == InitConcurrent /\ [][NextConcurrent]_vars

----------------------------------------------------------------------------
(* Properties of generate_event_draft and of the resolver                  *)

\* What the properties below read off a call and its prompt.
Returned == pc = "returned"
Finished == pc # "call"

\* The draft's start and end, where they are set.
DraftStart == draft.start_datetime[1]
DraftEnd == draft.end_datetime[1]

\* The first and the last instant of the day `date`, the last one with the
\* given microseconds.
DayStart(date) ==
    [date |-> date, hour |-> 0, minute |-> 0, second |-> 0, microsecond |-> 0]
DayEnd(date, microsecond) ==
    [date |-> date, hour |-> 23, minute |-> 59, second |-> 59,
     microsecond |-> microsecond]

\* The prompt says "all day": the two words, in any case, with whitespace
\* between them.
SaysAllDay == \E i \in 1..Len(prompt) : AllDayAt(str_lower(prompt), i)

\* The weekdays (1 = Monday .. 7 = Sunday) the prompt names.
NamedDays == { k \in 1..Len(DayNames) : Contains(str_lower(prompt), DayNames[k]) }

\* The prompt has none of the phrases that come before weekday names.
NoRelativeDay ==
    /\ ~Contains(str_lower(prompt), "tomorrow")
    /\ ~Contains(str_lower(prompt), "today")
    /\ ~SearchNextWeek(str_lower(prompt))

\* The first date strictly after `today` that falls on weekday k (1 = Monday).
NextOccurrence(today, k) ==
    CHOOSE d \in (today + 1)..(today + 7) : Weekday(d) = k - 1

Least(S) == CHOOSE k \in S : \A j \in S : k <= j

\* The base date the precedence rule of the specification gives.
ExpectedBaseDate ==
    IF Contains(str_lower(prompt), "tomorrow") THEN now + 1
    ELSE IF Contains(str_lower(prompt), "today") THEN now
    ELSE IF SearchNextWeek(str_lower(prompt)) THEN now + 7
    ELSE IF NamedDays # {} THEN NextOccurrence(now, Least(NamedDays))
    ELSE now

\* The shape of a draft's start and end.
DraftShape ==
    /\ draft.all_day => draft.start_datetime # None /\ draft.end_datetime # None
    /\ ~draft.all_day => (draft.start_datetime = None <=> draft.end_datetime = None)

\* C1: for every prompt, the empty one included, generate_event_draft returns
\* a draft; its start and end are both set when all_day is true, and both
\* set or both null when all_day is false.
C1_EveryPromptGivesShapedDraft == Finished => Returned /\ DraftShape

\* Every draft that is returned has the shape C1 states: the calls that
\* violate C1 are the calls that return no draft.
ReturnedDraftIsShaped == Returned => DraftShape

\* C2: generate_event_draft lets no exception escape, whatever time, date
\* or duration fragments the prompt holds: every call returns a draft.
C2_NoExceptionEscapes == pc # "raised"

\* C3 as the specification states it: an all-day result starts on the base
\* date at 00:00:00.000000 and ends on it at 23:59:59.999999.
C3_AllDayEndsAtLastMicrosecond ==
    Returned /\ draft.all_day =>
        /\ draft.start_datetime = Some(DayStart(ExpectedBaseDate))
        /\ draft.end_datetime = Some(DayEnd(ExpectedBaseDate, 999999))

\* C3, corrected: an all-day result starts on the base date at
\* 00:00:00.000000 and ends on it at 23:59:59.000000, the microseconds of
\* the last instant of the day being cleared.
C3_AllDayEndsAtLastSecond ==
    Returned /\ draft.all_day =>
        /\ draft.start_datetime = Some(DayStart(ExpectedBaseDate))
        /\ draft.end_datetime = Some(DayEnd(ExpectedBaseDate, 0))

\* An all-day result for tomorrow, of a prompt that does not say "all
\* day" and whose time mention is no time of day.
C3_Witness ==
    /\ Returned /\ draft.all_day
    /\ ~SaysAllDay
    /\ draft.extracted_entities.times # <<>>
    /\ Contains(str_lower(prompt), "tomorrow")

\* C4: the title of every returned draft is a non-empty string, also for
\* the empty prompt and for a prompt of whitespace only.
C4_TitleIsNonEmpty == Returned => draft.title # ""

\* C5: a base date resolved from a weekday name falls on a named weekday,
\* strictly after today and at most 7 days ahead; when a single weekday is
\* named and it is today's weekday, the date is today + 7 days.
C5_WeekdayIsNextOccurrence ==
    NoRelativeDay /\ NamedDays # {} =>
        LET d == BaseDate(prompt, now)
        IN  /\ Weekday(d) + 1 \in NamedDays
            /\ now < d /\ d <= now + 7
            /\ \A k \in NamedDays : Weekday(now) = k - 1 /\ NamedDays = {k} => d = now + 7
            /\ Returned => DraftStart.date = d

\* A call made on the very weekday the prompt names.
C5_Witness ==
    /\ Returned
    /\ NoRelativeDay
    /\ NamedDays = {Weekday(now) + 1}
    /\ DraftStart.date = now + 7

\* C6: the base date is now + 1 for "tomorrow", else now for "today", else
\* now + 7 for "next week", else the next occurrence of the first weekday
\* named in Monday..Sunday order, else now; also when several phrases occur
\* together and when the event is all-day.  The draft's start is on it.
C6_BaseDatePrecedence ==
    /\ BaseDate(prompt, now) = ExpectedBaseDate
    /\ Returned => DraftStart.date = ExpectedBaseDate

\* An all-day draft for a prompt that says both "tomorrow" and "today".
C6_Witness ==
    /\ Returned /\ draft.all_day
    /\ Contains(str_lower(prompt), "tomorrow")
    /\ Contains(str_lower(prompt), "today")
    /\ DraftStart.date = now + 1

\* The hour of the day for hour h of the 12-hour clock.
ExpectedHour(h, meridiem) ==
    IF meridiem = "pm" /\ h # 12 THEN h + 12
    ELSE IF meridiem = "am" /\ h = 12 THEN 0
    ELSE h

\* The prompt does not say "all day", and its first time mention has an
\* hour in 1..12 and a minute in 0..59.
FirstMentionIsClockTime ==
    /\ ~SaysAllDay
    /\ ExtractTimes(prompt) # <<>>
    /\ DigitsValue(ExtractTimes(prompt)[1].hour) \in 1..12
    /\ DigitsValue(ExtractTimes(prompt)[1].minute) \in 0..59

\* The start C7 states for the first time mention.
ExpectedStart ==
    LET m == ExtractTimes(prompt)[1]
    IN  [date |-> ExpectedBaseDate,
         hour |-> ExpectedHour(DigitsValue(m.hour), str_lower(m.am_pm)),
         minute |-> DigitsValue(m.minute), second |-> 0, microsecond |-> 0]

\* C7: when the prompt does not say "all day" and its first time mention
\* has hour h in 1..12 and minute m in 0..59, the call returns all_day =
\* false and start = base date at H:m, H the hour of the day for h.
C7_ClockTimeGivesTimedStart ==
    FirstMentionIsClockTime /\ Finished =>
        /\ Returned
        /\ ~draft.all_day
        /\ draft.start_datetime = Some(ExpectedStart)

\* Every call that returns does what C7 states: the calls that violate C7
\* are the calls that return nothing.
ReturnedStartIsClockTime ==
    FirstMentionIsClockTime /\ Returned =>
        ~draft.all_day /\ draft.start_datetime = Some(ExpectedStart)

\* The hours from a to b, two instants that differ by whole hours.
HoursBetween(a, b) == (b.date - a.date) * 24 + (b.hour - a.hour)

\* The hours the prompt asks for: 1 without a duration phrase, the number of
\* the first phrase otherwise.
ExpectedHours ==
    IF DurationSearch(prompt) = <<>> THEN 1
    ELSE DigitsValue(DurationSearch(prompt)[1])

\* C8: a timed result ends exactly 1 hour after its start when the prompt
\* has no duration phrase, and exactly N hours after it when the first
\* duration phrase says N.
C8_DurationIsHoursAsked ==
    Returned /\ ~draft.all_day =>
        /\ draft.start_datetime # None /\ draft.end_datetime # None
        /\ DraftEnd.minute = DraftStart.minute
        /\ DraftEnd.second = DraftStart.second
        /\ DraftEnd.microsecond = DraftStart.microsecond
        /\ DraftEnd.hour \in 0..23
        /\ HoursBetween(DraftStart, DraftEnd) = ExpectedHours

\* A timed result of two duration phrases, the first one of more than a day.
C8_Witness ==
    /\ Returned /\ ~draft.all_day
    /\ prompt = "11:30 pm 25 Hours 2hr"
    /\ DraftEnd.date = DraftStart.date + 2
    /\ DraftEnd.hour = 0 /\ DraftEnd.minute = 30

\* The hour and minute a time mention stands for, <<>> when a field is
\* missing or is not a run of digits.
ClockOf(m) ==
    IF ~({"hour", "minute", "am_pm"} \subseteq DOMAIN m) THEN <<>>
    ELSE IF str_strip(m.hour) = "" \/ ~AllDigits(str_strip(m.hour)) THEN <<>>
    ELSE IF str_strip(m.minute) = "" \/ ~AllDigits(str_strip(m.minute)) THEN <<>>
    ELSE << ExpectedHour(DigitsValue(str_strip(m.hour)), str_lower(m.am_pm)),
            DigitsValue(str_strip(m.minute)) >>

\* The first time mention of the bag is no time of day.
FirstMentionIsMalformed ==
    /\ entities.times # <<>>
    /\ \/ ClockOf(entities.times[1]) = <<>>
       \/ ClockOf(entities.times[1])[1] \notin 0..23
       \/ ClockOf(entities.times[1])[2] \notin 0..59

\* C9: when the first time mention is no valid time of day (a field that
\* is missing or not numeric, an hour or minute out of range after the
\* 12-hour conversion), the resolver returns all_day = true with the full
\* day of the base date; nothing of the failed attempt is in the result.
C9_MalformedTimeGivesAllDay ==
    FirstMentionIsMalformed /\ Finished =>
        /\ Returned
        /\ resolved.all_day
        /\ resolved.start_datetime = Some(DayStart(ExpectedBaseDate))
        /\ resolved.end_datetime = Some(DayEnd(ExpectedBaseDate, 0))

\* A malformed first mention before a valid one, in a prompt that does not
\* say "all day" and has a duration phrase.
C9_Witness ==
    /\ Returned
    /\ FirstMentionIsMalformed
    /\ Len(entities.times) = 2
    /\ ~SaysAllDay
    /\ DurationSearch(prompt) # <<>>
    /\ resolved.all_day

\* C10: when the prompt says "all day", in any case and with any
\* whitespace between the words, the call returns all_day = true with the
\* full day of the base date, whatever time mentions and duration phrases
\* the prompt has.
C10_AllDayPhraseWins ==
    SaysAllDay /\ Finished =>
        /\ Returned
        /\ draft.all_day
        /\ draft.start_datetime = Some(DayStart(ExpectedBaseDate))
        /\ draft.end_datetime = Some(DayEnd(ExpectedBaseDate, 0))

\* "ALL  DAY" next to a valid time and a duration that no date can hold.
C10_Witness ==
    /\ Returned /\ draft.all_day
    /\ prompt = "ALL  DAY at 3pm for 99999999 hours"
    /\ draft.extracted_entities.times # <<>>

----------------------------------------------------------------------------
(* Properties of the entity scanner                                        *)

\* The long-form and the short-form matches of the prompt, with the spans
\* they have in it.
LongMatches == FindIter2(prompt, str_lower(prompt), 1)
ShortMatches == FindIter1(prompt, str_lower(prompt), 1)

\* Two matches share a character of the prompt.
SpansOverlap(a, b) == a.start < b.end /\ b.start < a.end

\* The short-form matches that overlap no long-form match.
FreeShortMatches ==
    LET free(m) == \A k \in 1..Len(LongMatches) : ~SpansOverlap(m, LongMatches[k])
    IN  SelectSeq(ShortMatches, free)

\* C11: the times sequence holds one mention for each long-form occurrence
\* and, of the short form, exactly the mentions whose span overlaps no
\* long-form occurrence: the minute of a long-form mention is never listed
\* again as the hour of a short-form mention.
C11_NoShortMentionInsideLong ==
    Returned =>
        LET times == draft.extracted_entities.times
        IN  /\ Len(times) = Len(LongMatches) + Len(FreeShortMatches)
            /\ \A k \in 1..Len(FreeShortMatches) :
                  times[Len(LongMatches) + k].raw = FreeShortMatches[k].raw

\* With a single long-form mention whose text occurs once in the prompt,
\* the times sequence is as C11 states.
SingleLongMentionIsClean ==
    Returned /\ Len(LongMatches) = 1 /\ LongMatches[1].start = str_find(prompt, LongMatches[1].raw) =>
        Len(draft.extracted_entities.times) = 1 + Len(FreeShortMatches)

----------------------------------------------------------------------------
(* Properties of the confidence scorer                                     *)

\* A direct call of _calculate_confidence has returned.
Scored == pc = "returned" /\ score # None

\* 1 when the condition holds, else 0.
Point(b) == IF b THEN 1 ELSE 0

\* The points for the two instants: 2 for both, 1 for exactly one.
TimePoints(a) ==
    Point(a.start_datetime # None) + Point(a.end_datetime # None)

\* The points of a call when the title is measured after stripping and an
\* empty location counts as absent.
StrippedPoints(a) ==
    Point(Len(str_strip(a.title)) > 3) + TimePoints(a)
        + Point(a.location \notin {None, Some("")}) + Point(Len(a.attendees) > 0)

\* The points of a call when the title is measured as passed and any
\* location that is not null counts as present.
LiteralPoints(a) ==
    Point(Len(a.title) > 3) + TimePoints(a)
        + Point(a.location # None) + Point(Len(a.attendees) > 0)

\* C12 (as amended): _calculate_confidence returns p / 5 where p = (1 if the
\* title, stripped of surrounding whitespace, has more than 3 characters) +
\* (2 if both start and end are present, 1 if exactly one is) + (1 if the
\* location is a non-empty string) + (1 if the attendee list is non-empty);
\* the score is one of 0/5 .. 5/5, so the cap at 1 never changes it.
C12_ConfidenceIsStrippedPoints ==
    Scored => /\ score[1] = StrippedPoints(args)
              /\ score[1] \in 0..5

\* C12 (as stated): the title point is given for a title of more than 3
\* characters and the location point for any location that is present.
C12_ConfidenceIsLiteralPoints ==
    Scored => score[1] = LiteralPoints(args)

\* A call with a padded title of more than 3 characters whose stripped text
\* has fewer has returned, and the title earned no point.
C12_Witness ==
    /\ Scored
    /\ Len(args.title) > 3
    /\ Len(str_strip(args.title)) <= 3
    /\ args.start_datetime # None /\ args.end_datetime # None
    /\ score[1] = 2 + Point(args.location = Some("Cafe Rio")) + Point(args.attendees # <<>>)

\* The fields of a call that are populated, the title being measured after
\* stripping and an empty location counting as absent.
StrippedFields(a) ==
    {f \in {"title"} : Len(str_strip(a.title)) > 3}
        \cup {f \in {"start"} : a.start_datetime # None}
        \cup {f \in {"end"} : a.end_datetime # None}
        \cup {f \in {"location"} : a.location \notin {None, Some("")}}
        \cup {f \in {"attendees"} : Len(a.attendees) > 0}

\* The fields of a call that are populated, the title being measured as
\* passed and any location that is not null counting as present.
LiteralFields(a) ==
    {f \in {"title"} : Len(a.title) > 3}
        \cup {f \in {"start"} : a.start_datetime # None}
        \cup {f \in {"end"} : a.end_datetime # None}
        \cup {f \in {"location"} : a.location # None}
        \cup {f \in {"attendees"} : Len(a.attendees) > 0}

\* Two calls have returned, one after the other.
ScoredTwice == Scored /\ earlier # None

\* C13 (as amended): when the second call has every populated field of the
\* first and at least one more of {stripped title longer than 3 characters,
\* start, end, non-empty location, attendees}, its score is strictly higher
\* (and when it has the same or more, not lower).
C13_MorePopulatedScoresHigher ==
    ScoredTwice =>
        LET first == StrippedFields(earlier[1].args)
            second == StrippedFields(args)
        IN  /\ first \subseteq second => score[1] >= earlier[1].score
            /\ first \subseteq second /\ first # second => score[1] > earlier[1].score

\* C13 (as stated): the same with the title field populated by a title of
\* more than 3 characters and the location field by any location.
C13_MoreLiteralScoresHigher ==
    ScoredTwice =>
        LET first == LiteralFields(earlier[1].args)
            second == LiteralFields(args)
        IN  /\ first \subseteq second => score[1] >= earlier[1].score
            /\ first \subseteq second /\ first # second => score[1] > earlier[1].score

\* A call with only a start, then a call with the same start and an end, a
\* title and a location: 1 point, then 4.
C13_Witness ==
    /\ ScoredTwice
    /\ StrippedFields(earlier[1].args) = {"start"}
    /\ StrippedFields(args) = {"title", "start", "end", "location"}
    /\ earlier[1].score = 1
    /\ score[1] = 4

----------------------------------------------------------------------------
(* Properties of the title synthesizer                                     *)

\* Each whitespace-delimited word of s begins with a character that is not
\* a lower-case letter.
EachWordCapitalized(s) ==
    \A i \in 1..Len(s) :
        (i = 1 \/ IsSpace(At(s, i - 1))) /\ ~IsSpace(At(s, i)) => At(s, i) \notin LowerChars

\* C14: every title the title synthesizer returns is in title case (each
\* word capitalized), whichever rule produced it, the keyword fallback with
\* " with <first person>" included.
C14_TitleIsTitleCase ==
    Returned => EachWordCapitalized(draft.title)

\* When the scanner recognized no person, so that the title is not the
\* keyword joined to a person, each word of the title is capitalized.
TitleWithoutPersonIsTitleCase ==
    Returned /\ draft.extracted_entities.people = <<>> =>
        EachWordCapitalized(draft.title)

\* The text a title rule found, stripped: "" when the rule found none.
ClauseText(m) == IF m = <<>> THEN "" ELSE str_strip(m[1])

LeadingText == ClauseText(LeadingClause(prompt))
ScheduleText == ClauseText(VerbClause(prompt, "schedule"))
BookText == ClauseText(VerbClause(prompt, "book"))

\* The keyword fallback: the first recognized keyword, with the first
\* recognized person when there is one.
KeywordTitle(ents) ==
    IF ents.people = <<>> THEN str_title(ents.keywords[1])
    ELSE str_title(ents.keywords[1]) \o " with " \o ents.people[1]

\* C15: the title is chosen by strict rule priority: the leading clause when
\* it is longer than 3 characters; otherwise the text after "schedule", then
\* the text after "book", when longer than 3 characters; only when none of
\* the three is, the keyword fallback; and only when no keyword was
\* recognized, the first five words of the prompt.
C15_TitleRulePriority ==
    Returned =>
        LET ents == draft.extracted_entities
            title == draft.title
        IN  /\ Len(LeadingText) > 3 => title = str_title(LeadingText)
            /\ Len(LeadingText) <= 3 /\ Len(ScheduleText) > 3 =>
                   title = str_title(ScheduleText)
            /\ Len(LeadingText) <= 3 /\ Len(ScheduleText) <= 3 /\ Len(BookText) > 3 =>
                   title = str_title(BookText)
            /\ Len(LeadingText) <= 3 /\ Len(ScheduleText) <= 3 /\ Len(BookText) <= 3 =>
                   IF ents.keywords # <<>> THEN title = KeywordTitle(ents)
                   ELSE title = str_title(JoinFirst(SplitWords(prompt, 1), 5))

\* A draft whose prompt has both a leading clause and a "schedule" clause
\* longer than 3 characters, different from each other: the leading clause
\* was returned.
C15_Witness ==
    /\ Returned
    /\ Len(LeadingText) > 3
    /\ Len(ScheduleText) > 3
    /\ str_title(LeadingText) # str_title(ScheduleText)
    /\ draft.title = str_title(LeadingText)

\* A draft whose leading clause is too short and whose "schedule" clause
\* gave the title.
ShortLeadingClauseFallsThrough ==
    /\ Returned
    /\ LeadingText # ""
    /\ Len(LeadingText) <= 3
    /\ Len(ScheduleText) > 3
    /\ draft.title = str_title(ScheduleText)

----------------------------------------------------------------------------
(* Properties of the keyword scanner                                       *)

\* The vocabulary keywords that occur in the prompt, in any case.
KeywordsInPrompt ==
    { EventKeywords[k] : k \in { j \in 1..Len(EventKeywords) :
                                    str_find(str_lower(prompt), EventKeywords[j]) >= 0 } }

\* The sequence ks holds exactly the keywords occurring in the prompt, each
\* of them once.
OnceEach(ks) ==
    /\ { ks[i] : i \in 1..Len(ks) } = KeywordsInPrompt
    /\ \A i, j \in 1..Len(ks) : ks[i] = ks[j] => i = j

\* The sequence ks is in the order of the first occurrences in the prompt.
InFirstOccurrenceOrder(ks) ==
    \A i, j \in 1..Len(ks) :
        i < j => str_find(str_lower(prompt), ks[i]) < str_find(str_lower(prompt), ks[j])

\* C16: the keywords sequence holds each vocabulary keyword that occurs in
\* the prompt exactly once, however often it occurs, and lists the keywords
\* in the order of their first occurrence in the prompt.
C16_KeywordsOnceInFirstOccurrenceOrder ==
    Returned =>
        /\ OnceEach(draft.extracted_entities.keywords)
        /\ InFirstOccurrenceOrder(draft.extracted_entities.keywords)

\* Each keyword occurring in the prompt is listed exactly once, also when it
\* occurs several times.
KeywordsListedOnceEach ==
    Returned => OnceEach(draft.extracted_entities.keywords)

\* A keyword that occurs three times in the prompt was listed once.
RepeatedKeywordListedOnce ==
    /\ Returned
    /\ prompt = "lunch lunch dinner lunch"
    /\ draft.extracted_entities.keywords = <<"lunch", "dinner">>

----------------------------------------------------------------------------
(* Properties of the location extractor                                    *)

WeekdayNames ==
    {"monday", "tuesday", "wednesday", "thursday", "friday", "saturday", "sunday"}

\* Whitespace and the punctuation that may end a phrase.
TrailingChars == {" ", "\t", "\n", "\r", ",", ".", ";", ":", "!", "?"}

\* A location that starts with a letter, ends with neither punctuation nor
\* whitespace, has 3 characters or more, is not made of digits, whitespace
\* and colons only, and is not a weekday name in any case.
WellFormedLocation(l) ==
    /\ IsAlpha(At(l, 1))
    /\ At(l, Len(l)) \notin TrailingChars
    /\ Len(l) >= 3
    /\ \E k \in 1..Len(l) : At(l, k) \notin DigitChars \cup {" ", "\t", "\n", "\r", ":"}
    /\ str_lower(l) \notin WeekdayNames

\* C17: any non-null location the location extractor returns starts with a
\* letter, has no trailing punctuation or whitespace, is at least 3
\* characters long, is not made only of digits, whitespace and colons, and
\* is not a weekday name; the purely numeric candidate of "Meeting at 123
\* tomorrow" yields null.
C17_LocationIsWellFormed ==
    Returned =>
        /\ draft.location # None => WellFormedLocation(draft.location[1])
        /\ prompt = "Meeting at 123 tomorrow" => draft.location = None

\* A prompt whose "at" phrase names a weekday and whose "in" phrase names a
\* place: the weekday was passed over and the place returned.
C17_Witness ==
    /\ Returned
    /\ prompt = "Meet at FRIDAY today in Oslo"
    /\ draft.location = Some("Oslo")

\* The numeric candidate was rejected.
NumericCandidateGivesNull ==
    /\ Returned
    /\ prompt = "Meeting at 123 tomorrow"
    /\ draft.location = None

\* The cleaned candidate of every "at ..." and "in ..." phrase of the
\* prompt: the group of a location pattern matched from each position on.
AllCandidates ==
    LET found == { LocationSearchFrom(prompt, str_lower(prompt), word, i) :
                       word \in {"at", "in"}, i \in 1..Len(prompt) } \ {<<>>}
    IN  { StripTrailingPunctuation(str_strip(m[1])) : m \in found }

\* The candidates of the prompt that pass every validation rule.
PassingCandidates == { c \in AllCandidates : WellFormedLocation(c) }

\* C18 (as stated): when the prompt holds an "at ..." or "in ..." phrase whose candidate
\* passes every validation rule, the location is not null and is a passing
\* candidate, also when an earlier candidate was rejected; null is returned
\* only when no candidate of the prompt passes.
C18_FirstPassingCandidateIsReturned ==
    Returned =>
        /\ PassingCandidates # {} => draft.location # None
        /\ draft.location # None => draft.location[1] \in PassingCandidates
        /\ draft.location = None => PassingCandidates = {}

\* C18 (as amended): the location is the candidate of the first "at ..."
\* phrase when that one passes every validation rule, else the candidate of
\* the first "in ..." phrase when that one passes, else null: later phrases
\* of either kind are not tried.
C18_OnlyFirstPhrasesAreTried ==
    Returned =>
        LET low == str_lower(prompt)
            clean(m) == StripTrailingPunctuation(str_strip(m[1]))
            at == LocationSearchFrom(prompt, low, "at", 1)
            in == LocationSearchFrom(prompt, low, "in", 1)
        IN  IF at # <<>> /\ WellFormedLocation(clean(at)) THEN draft.location = Some(clean(at))
            ELSE IF in # <<>> /\ WellFormedLocation(clean(in)) THEN draft.location = Some(clean(in))
            ELSE draft.location = None

\* A prompt whose first "at ..." phrase was rejected and whose second one
\* passes: null was returned.
C18_Witness ==
    /\ Returned
    /\ prompt = "Meet at AB tomorrow at Cafe Rio"
    /\ "Cafe Rio" \in PassingCandidates
    /\ draft.location = None

----------------------------------------------------------------------------
(* Properties of a draft made from a prompt without entities               *)

\* A draft was returned and the scanner recognized no entity at all.
NoEntityRecognized == Returned /\ draft.extracted_entities = NoEntities

\* The first five words of the prompt, in title case.
FirstFiveWords == str_title(JoinFirst(SplitWords(prompt, 1), 5))

\* The title of a prompt without keywords: the first title pattern whose
\* text is longer than 3 characters, else the first five words.
TitleWithoutKeywords ==
    IF Len(LeadingText) > 3 THEN str_title(LeadingText)
    ELSE IF Len(ScheduleText) > 3 THEN str_title(ScheduleText)
    ELSE IF Len(BookText) > 3 THEN str_title(BookText)
    ELSE FirstFiveWords

\* The prompt gives the extractors that do not use the entities nothing to
\* find: no title pattern text longer than 3 characters, no "at" or "in"
\* phrase, no "@", and no date word inside a longer word.
NothingToFind ==
    /\ Len(LeadingText) <= 3 /\ Len(ScheduleText) <= 3 /\ Len(BookText) <= 3
    /\ AllCandidates = {}
    /\ ~Contains(prompt, "@")
    /\ NoRelativeDay /\ NamedDays = {}

\* C19 (as amended): when the scanner recognizes no entity, the draft is
\* all-day from 00:00:00 to 23:59:59 of the base date; the title is that of
\* the first title pattern longer than 3 characters, else the first five
\* words; the confidence is 2/5 plus 1/5 for each of a title longer than 3
\* characters, a location and an attendee; and when the prompt also gives
\* the other extractors nothing to find, the title is the first five words,
\* the location null, the attendee list empty, the date the current one and
\* the confidence 2/5 or 3/5.
C19_NoEntityDraft ==
    NoEntityRecognized =>
        /\ draft.all_day
        /\ draft.start_datetime = Some(DayStart(ExpectedBaseDate))
        /\ draft.end_datetime = Some(DayEnd(ExpectedBaseDate, 0))
        /\ draft.title = TitleWithoutKeywords
        /\ draft.confidence = 2 + Point(Len(draft.title) > 3)
                                 + Point(draft.location # None)
                                 + Point(draft.attendees # <<>>)
        /\ NothingToFind =>
               /\ draft.title = FirstFiveWords
               /\ draft.location = None
               /\ draft.attendees = <<>>
               /\ DraftStart.date = now
               /\ draft.confidence \in {2, 3}

\* C19 (as stated): when the scanner recognizes no entity, the title is the
\* first five words, the location null, the attendee list empty, the draft
\* all-day on the current date, and the confidence above 0 and at most 3/5.
C19_NoEntityDraftIsAllFallbacks ==
    NoEntityRecognized =>
        /\ draft.title = FirstFiveWords
        /\ draft.location = None
        /\ draft.attendees = <<>>
        /\ draft.all_day
        /\ draft.start_datetime = Some(DayStart(now))
        /\ draft.end_datetime = Some(DayEnd(now, 0))
        /\ draft.confidence \in 1..3

\* A prompt without entities whose title came from the "schedule" pattern
\* and not from the first five words.
C19_Witness ==
    /\ NoEntityRecognized
    /\ prompt = "schedule team sync"
    /\ draft.title = "Team Sync"
    /\ draft.title # FirstFiveWords
    /\ draft.confidence = 3

\* A prompt without entities and with nothing else to find: every fallback
\* applies.
EveryFallbackApplies ==
    /\ NoEntityRecognized
    /\ NothingToFind
    /\ prompt = "hello there"
    /\ draft.title = "Hello There"
    /\ draft.confidence = 3

----------------------------------------------------------------------------
(* Properties of the event store                                           *)

\* The last call was create_event.
Created == request # None /\ request[1].op = "create_event"

\* Two events share more than an instant of time.
SharesTime(a, b) ==
    a.start_datetime < b.end_datetime /\ b.start_datetime < a.end_datetime

\* The new event of the last create_event overlaps an all-day row that was
\* stored before the call.
OverlapsStoredAllDay ==
    \E r \in request[1].rows : r.all_day /\ SharesTime(r, request[1].event_data)

\* C20: create_event raises ConflictError if and only if the new event is
\* all-day and overlaps (shares more than an instant with) an all-day event
\* already stored, and then nothing is added to the store; a timed event is
\* never rejected for overlapping, whatever the store holds.
C20_ConflictIffAllDayOverlap ==
    Created =>
        LET new == request[1].event_data
        IN  /\ outcome = "ConflictError" <=> (new.all_day /\ OverlapsStoredAllDay)
            /\ outcome = "ConflictError" => store = request[1].rows
            /\ ~new.all_day => outcome # "ConflictError"
            /\ ~new.all_day /\ outcome # "IntegrityError" =>
                   /\ outcome = "ok"
                   /\ Cardinality(store) = Cardinality(request[1].rows) + 1

\* An all-day event overlapping a stored all-day event, with a stored timed
\* event beside it, was refused and the store left as it was.
C20_Witness ==
    /\ Created
    /\ request[1].event_data.all_day
    /\ OverlapsStoredAllDay
    /\ \E r \in request[1].rows : ~r.all_day /\ SharesTime(r, request[1].event_data)
    /\ outcome = "ConflictError"
    /\ store = request[1].rows

\* A timed event overlapping a stored all-day event was stored.
TimedOverlapIsStored ==
    /\ Created
    /\ ~request[1].event_data.all_day
    /\ OverlapsStoredAllDay
    /\ outcome = "ok"

\* An all-day event that starts at the instant a stored all-day event ends
\* was stored: the two do not overlap.
TouchingAllDayIsStored ==
    /\ Created
    /\ request[1].event_data.all_day
    /\ \E r \in request[1].rows :
           r.all_day /\ r.end_datetime = request[1].event_data.start_datetime
    /\ outcome = "ok"

\* The last call was update_event; the row it names, as stored before the
\* call (<<>> when the id is unknown), and the data of the request.
Updating == request # None /\ request[1].op = "update_event"
RowsBefore == request[1].rows
StoredBefore == { r \in RowsBefore : r.id = request[1].event_id }

\* The value a field has after the update asked for: the request's when it
\* gives one, else that of the stored row r.
Asked(r, field) ==
    IF request[1].event_data[field] = None THEN r[field]
    ELSE request[1].event_data[field][1]

\* The update asked for makes r an all-day event that shares time with
\* another all-day row.
AskedOverlap(r) ==
    /\ Asked(r, "all_day")
    /\ \E o \in RowsBefore :
          /\ o.id # r.id
          /\ o.all_day
          /\ o.start_datetime < Asked(r, "end_datetime")
          /\ Asked(r, "start_datetime") < o.end_datetime

\* C21: update_event raises ConflictError whenever the resulting end is not
\* strictly after the resulting start, and when the resulting event is
\* all-day and overlaps another stored all-day event; in both cases, and
\* when the id is unknown (NotFoundError), no stored row is modified.
C21_UpdateRefusals ==
    Updating =>
        /\ StoredBefore = {} => outcome = "NotFoundError"
        /\ \A r \in StoredBefore :
              /\ Asked(r, "end_datetime") <= Asked(r, "start_datetime") =>
                    outcome = "ConflictError"
              /\ AskedOverlap(r) => outcome = "ConflictError"
        /\ outcome \in {"ConflictError", "NotFoundError"} => store = RowsBefore

\* An update that gives only an end, not after the stored start, of one of
\* two stored rows was refused and both rows are as they were.
C21_Witness ==
    /\ Updating
    /\ Cardinality(RowsBefore) = 2
    /\ \E r \in StoredBefore :
          /\ request[1].event_data.start_datetime = None
          /\ request[1].event_data.end_datetime # None
          /\ Asked(r, "end_datetime") <= r.start_datetime
    /\ outcome = "ConflictError"
    /\ store = RowsBefore

\* An update that only turns a timed row into an all-day one, over a stored
\* all-day row, was refused.
AllDayUpdateOverlapIsRefused ==
    /\ Updating
    /\ \E r \in StoredBefore :
          /\ ~r.all_day
          /\ UpdateData(request[1].event_data) = {"all_day"}
          /\ AskedOverlap(r)
    /\ outcome = "ConflictError"
    /\ store = RowsBefore

\* The fields of a row that a request can set.
EventFields == {"title", "start_datetime", "end_datetime", "all_day"}

\* The request of the last update_event sets no field to a value.
AsksNothing == \A f \in EventFields : request[1].event_data[f] = None

\* C22: a successful update_event changes exactly the fields the request
\* sets to a non-null value, and updated_at; every other field of the row
\* and every other row is unchanged.  A request that sets no field returns
\* the row with nothing changed, updated_at included.
C22_UpdateChangesOnlyWhatIsSet ==
    Updating /\ outcome = "ok" =>
        \A r \in StoredBefore :
            IF AsksNothing
            THEN /\ store = RowsBefore
                 /\ response = Some(r)
            ELSE \E new \in store :
                    /\ new.id = r.id
                    /\ \A f \in EventFields : new[f] = Asked(r, f)
                    /\ new.updated_at > r.updated_at
                    /\ response = Some(new)
                    /\ store \ {new} = RowsBefore \ {r}

\* An update that sets only the title of one of two rows succeeded: the
\* title and updated_at of that row changed, nothing else did.
C22_Witness ==
    /\ Updating
    /\ outcome = "ok"
    /\ Cardinality(RowsBefore) = 2
    /\ UpdateData(request[1].event_data) = {"title"}
    /\ \E r \in StoredBefore, new \in store :
          /\ new.id = r.id
          /\ new.title # r.title
          /\ new.start_datetime = r.start_datetime
          /\ new.end_datetime = r.end_datetime
          /\ new.all_day = r.all_day
          /\ new.updated_at # r.updated_at
          /\ store \ {new} = RowsBefore \ {r}

\* An update without any value returned the row and wrote nothing.
EmptyUpdateWritesNothing ==
    /\ Updating
    /\ outcome = "ok"
    /\ AsksNothing
    /\ StoredBefore # {}
    /\ store = RowsBefore

\* The last call was get_event, update_event or delete_event: a call that
\* names a row by its id.
ByIdOps == {"get_event", "update_event", "delete_event"}
CalledById == request # None /\ request[1].op \in ByIdOps

\* C23: after delete_event(id) has succeeded, every later get_event(id),
\* update_event(id) and delete_event(id) raises NotFoundError; a successful
\* delete leaves all other rows unchanged; get_event and delete_event of an
\* id that is not in the store raise NotFoundError and leave the store
\* unchanged.
C23_DeletedStaysGone ==
    CalledById =>
        /\ request[1].event_id \in request[1].gone => outcome = "NotFoundError"
        /\ request[1].op = "delete_event" /\ outcome = "ok" =>
              store = { r \in RowsBefore : r.id # request[1].event_id }
        /\ request[1].op \in {"get_event", "delete_event"} /\ StoredBefore = {} =>
              outcome = "NotFoundError" /\ store = RowsBefore

\* An id that was deleted is refused for as long as no later create_event
\* has been given the same id; the rest of C23 holds as stated.
DeletedIsGoneUntilIdIsReused ==
    CalledById =>
        /\ request[1].event_id \in request[1].gone /\ StoredBefore = {} =>
              outcome = "NotFoundError"
        /\ request[1].op = "delete_event" /\ outcome = "ok" =>
              store = { r \in RowsBefore : r.id # request[1].event_id }
        /\ StoredBefore = {} => outcome = "NotFoundError" /\ store = RowsBefore

\* get_event of an id that was deleted earlier returned a row: a later
\* create_event was given the id again.
DeletedIdIsReused ==
    /\ request # None
    /\ request[1].op = "get_event"
    /\ request[1].event_id \in request[1].gone
    /\ outcome = "ok"
    /\ response # None

(***************************************************************************)
(* Properties of list_events                                               *)
(***************************************************************************)
Listing == request # None /\ request[1].op = "list_events"

\* The stored events the filters of the call let through.
MatchingListed ==
    { e \in request[1].rows :
        /\ request[1].from_date # None => e.start_datetime >= request[1].from_date[1]
        /\ request[1].to_date # None => e.end_datetime <= request[1].to_date[1]
        /\ request[1].query # None =>
              Contains(str_lower(e.title), str_lower(request[1].query[1])) }

\* The events of page p of the call's table, filters and size.
PageOfCall(p) ==
    ListPage(request[1].rows, request[1].from_date, request[1].to_date,
             request[1].query, p, request[1].size).events

\* Pages 1..p one after the other.
RECURSIVE PagesUpTo(_)
PagesUpTo(p) == IF p = 0 THEN <<>> ELSE PagesUpTo(p - 1) \o PageOfCall(p)

\* Enough pages to hold every row of the table, and one more.
AllPages == PagesUpTo(MaxRows + 1)

Ascending(seq) ==
    \A i \in DOMAIN seq, j \in DOMAIN seq :
        i < j => seq[i].start_datetime <= seq[j].start_datetime

\* C24: list_events returns as total the number of stored events matching
\* the filters, whatever page and size are, and as events the page-th block
\* of at most size events (positions (page-1)*size .. page*size-1) of one
\* list of the matching events sorted ascending by start_datetime; the pages
\* 1, 2, ... one after the other give every matching event exactly once.
C24_ListPagesAndTotal ==
    Listing =>
        LET page == request[1].page
            size == request[1].size
            first == (page - 1) * size + 1
            last == IF page * size < Len(AllPages) THEN page * size ELSE Len(AllPages)
        IN  /\ outcome = "ok"
            /\ response[1].total = Cardinality(MatchingListed)
            /\ Len(AllPages) = Cardinality(MatchingListed)
            /\ Range(AllPages) = MatchingListed
            /\ Ascending(AllPages)
            /\ response[1].events = SubSeq(AllPages, first, last)
            /\ Len(response[1].events) <= size
            /\ store = request[1].rows

\* The second page of size one, in a table where the two events that match
\* the query start at the same instant and a third event does not match.
C24_Witness ==
    /\ Listing
    /\ request[1].page = 2 /\ request[1].size = 1
    /\ request[1].query = Some("stand")
    /\ response[1].total = 2
    /\ Len(response[1].events) = 1
    /\ \E r1 \in MatchingListed, r2 \in MatchingListed :
          r1 # r2 /\ r1.start_datetime = r2.start_datetime
    /\ \E r \in request[1].rows : r \notin MatchingListed

(***************************************************************************)
(* Properties of the order of the time mentions                            *)
(***************************************************************************)
\* The time mentions of the prompt, of either form, in the order they occur
\* in it: the long-form matches and the short-form matches that overlap no
\* long-form match, merged by their position.
RECURSIVE MergeByPosition(_, _)
MergeByPosition(long, short) ==
    IF long = <<>> THEN [k \in 1..Len(short) |-> ShortMention(short[k])]
    ELSE IF short = <<>> THEN [k \in 1..Len(long) |-> LongMention(long[k])]
    ELSE IF Head(long).start < Head(short).start
         THEN <<LongMention(Head(long))>> \o MergeByPosition(Tail(long), short)
         ELSE <<ShortMention(Head(short))>> \o MergeByPosition(long, Tail(short))

MentionsInPromptOrder == MergeByPosition(LongMatches, FreeShortMatches)

\* The start C25 states: the base date at the clock time of the mention that
\* occurs first in the prompt.
StartOfFirstInPrompt ==
    LET m == MentionsInPromptOrder[1]
    IN  [date |-> ExpectedBaseDate,
         hour |-> ExpectedHour(DigitsValue(m.hour), str_lower(m.am_pm)),
         minute |-> DigitsValue(m.minute), second |-> 0, microsecond |-> 0]

\* The mention that occurs first in the prompt is a time of the 12-hour clock.
FirstInPromptIsClockTime ==
    /\ MentionsInPromptOrder # <<>>
    /\ DigitsValue(MentionsInPromptOrder[1].hour) \in 1..12
    /\ DigitsValue(MentionsInPromptOrder[1].minute) \in 0..59

\* C25: the times sequence lists the time mentions of the prompt, of either
\* form, in the order they occur in the prompt, and the start of a timed
\* draft is taken from the mention that occurs first in the prompt, never
\* from a later one.
C25_FirstMentionInPromptGivesStart ==
    Returned =>
        /\ draft.extracted_entities.times = MentionsInPromptOrder
        /\ ~draft.all_day /\ FirstInPromptIsClockTime =>
              draft.start_datetime = Some(StartOfFirstInPrompt)

\* With mentions of one form only, each listed once, the times sequence is
\* in prompt order and the start is that of the first mention in the prompt.
OneFormMentionsAreInPromptOrder ==
    /\ Returned
    /\ LongMatches = <<>> \/ FreeShortMatches = <<>>
    /\ Len(draft.extracted_entities.times) = Len(LongMatches) + Len(FreeShortMatches)
    =>  /\ draft.extracted_entities.times = MentionsInPromptOrder
        /\ ~draft.all_day /\ FirstInPromptIsClockTime =>
              draft.start_datetime = Some(StartOfFirstInPrompt)

\* A short-form mention followed by a long-form one: the draft starts at the
\* time of the later mention.
LaterMentionGivesStart ==
    /\ Returned /\ ~draft.all_day
    /\ prompt = "Call 3pm or 4:30 pm"
    /\ draft.extracted_entities.times[1].raw = "4:30 pm"
    /\ DraftStart.hour = 16 /\ DraftStart.minute = 30

(***************************************************************************)
(* Properties of the LLM-backed extractor                                  *)
(***************************************************************************)
\* The call has been made.
Extracted == reply # None

\* The text has a "{" with a "}" somewhere after it.
HasBraces(text) ==
    \E i \in 1..Len(text), j \in 1..Len(text) :
        i < j /\ At(text, i) = "{" /\ At(text, j) = "}"

\* The JSON text of the reply, from its first "{" to its last "}".
ReplyJson == JsonSearch(str_strip(reply[1].content))[1]

\* The LLM call failed, or its reply holds no JSON object, or the JSON is
\* malformed, or the object does not fit the EventExtraction schema.
LLMFailed ==
    \/ reply[1].kind # "content"
    \/ ~HasBraces(reply[1].content)
    \/ JsonLoads(ReplyJson) = <<>>
    \/ EventExtraction(JsonLoads(ReplyJson)[1]) = <<>>

FallbackTitles == {"New Event", "Meeting", "Lunch", "Call", "Conference"}

\* The shape of the rule-based fallback: a title that starts with one of the
\* five titles, no start, no end, not all-day, confidence 0.3.
IsFallback(x) ==
    /\ x.title # ""
    /\ \E t \in FallbackTitles : Len(x.title) >= Len(t) /\ SubSeq(x.title, 1, Len(t)) = t
    /\ x.start_datetime = None
    /\ x.end_datetime = None
    /\ x.all_day = FALSE
    /\ x.confidence = 3
    /\ x.description = Some(user_input)

\* C26: extract_event_data always returns an extraction; when the LLM call
\* fails, when the reply contains no JSON object, when the JSON is malformed
\* or when it does not fit the EventExtraction schema, the extraction is the
\* rule-based fallback: non-empty title, start and end null, all_day false,
\* confidence 0.3.
C26_FailureGivesFallback ==
    Extracted =>
        /\ extraction # None
        /\ LLMFailed => IsFallback(extraction[1])

\* A reply whose JSON is well-formed but gives a number as the title, for a
\* text whose "with" is followed by no name.
C26_Witness ==
    /\ Extracted
    /\ user_input = "Call with  !"
    /\ reply[1].kind = "content"
    /\ reply[1].content = "{\"title\": 5}"
    /\ JsonLoads(ReplyJson) # <<>>
    /\ JsonLoads(ReplyJson)[1]["title"].type = "num"
    /\ extraction[1].title = "Call with "
    /\ extraction[1].confidence = 3

\* A reply that fits the schema is returned as the LLM gave it.
FittingReplyIsReturned ==
    Extracted /\ ~LLMFailed =>
        extraction[1] = EventExtraction(JsonLoads(ReplyJson)[1])[1]

\* Every kind of failure happens.
FailedOnMalformedJson ==
    Extracted /\ reply[1].kind = "content" /\ HasBraces(reply[1].content)
      /\ JsonLoads(ReplyJson) = <<>> /\ IsFallback(extraction[1])
FailedWithoutJson ==
    Extracted /\ reply[1].kind = "content" /\ ~HasBraces(reply[1].content)
      /\ reply[1].content # "" /\ IsFallback(extraction[1])
FailedOnChat ==
    Extracted /\ reply[1].kind = "ResponseError" /\ IsFallback(extraction[1])
ReturnedFromLLM ==
    Extracted /\ ~LLMFailed /\ extraction[1].confidence = 9

(***************************************************************************)
(* Invariants of the events table                                          *)
(***************************************************************************)
\* C27: after any sequence of create_event, update_event and delete_event
\* calls made one at a time, no two stored all-day events overlap (share
\* more than an instant of time).
C27_AllDayEventsNeverOverlap ==
    \A a \in store, b \in store :
        a # b /\ a.all_day /\ b.all_day => ~SharesTime(a, b)

\* Two all-day events that touch, the second made all-day by an update.
C27_Witness ==
    /\ Updating /\ outcome = "ok"
    /\ request[1].event_data.all_day = Some(TRUE)
    /\ \E r \in StoredBefore : ~r.all_day
    /\ \E a \in store, b \in store :
          /\ a # b /\ a.all_day /\ b.all_day
          /\ a.end_datetime = b.start_datetime

\* An update that would make a timed event all-day over a stored all-day
\* event is refused.
AllDayOverTimedIsRefused ==
    /\ Updating /\ outcome = "ConflictError"
    /\ request[1].event_data.all_day = Some(TRUE)
    /\ \E r \in StoredBefore : ~r.all_day /\ r.end_datetime > r.start_datetime
    /\ \E r \in StoredBefore, o \in RowsBefore : o.all_day /\ o # r /\ SharesTime(o, r)

\* C29: every stored event has end_datetime strictly after start_datetime,
\* after any sequence of create_event and update_event calls, also after an
\* update that changes only one of the two instants.
C29_EndIsAfterStart ==
    \A e \in store : e.end_datetime > e.start_datetime

\* An update that moved only the start of an event, up to just before its
\* end.
C29_Witness ==
    /\ Updating /\ outcome = "ok"
    /\ request[1].event_data.start_datetime # None
    /\ request[1].event_data.end_datetime = None
    /\ \E r \in StoredBefore, e \in store :
          /\ e.id = r.id
          /\ e.start_datetime > r.start_datetime
          /\ e.end_datetime = r.end_datetime
          /\ e.end_datetime > e.start_datetime

\* An update that moves only the start onto the end is refused and leaves
\* the table as it was.
StartOntoEndIsRefused ==
    /\ Updating /\ outcome = "ConflictError"
    /\ request[1].event_data.end_datetime = None
    /\ \E r \in StoredBefore : request[1].event_data.start_datetime = Some(r.end_datetime)
    /\ store = RowsBefore

(***************************************************************************)
(* Properties of interleaved EventService calls                            *)
(***************************************************************************)
\* The two calls are create_event calls for all-day events that overlap,
\* and both have returned.
OverlappingCreatesReturned(s, t) ==
    /\ s # t
    /\ sessions[s].pc = "done" /\ sessions[t].pc = "done"
    /\ sessions[s].op = "create_event" /\ sessions[t].op = "create_event"
    /\ sessions[s].event_data.all_day /\ sessions[t].event_data.all_day
    /\ SharesTime(sessions[s].event_data, sessions[t].event_data)

\* C28: also when requests interleave, each making its overlap check and its
\* commit as separate steps, no store holds two overlapping all-day events,
\* and of two concurrent create_event calls for overlapping all-day events
\* at most one is stored.
C28_InterleavedAllDayNeverOverlap ==
    /\ \A a \in store, b \in store :
          a.id # b.id /\ a.all_day /\ b.all_day => ~SharesTime(a, b)
    /\ \A s \in SessionIds, t \in SessionIds :
          OverlappingCreatesReturned(s, t) =>
              ~(sessions[s].outcome = "ok" /\ sessions[t].outcome = "ok")

\* Both of two concurrent create_event calls for overlapping all-day events
\* returned an event, and both events are stored.
BothOverlappingCreatesStored ==
    \E s \in SessionIds, t \in SessionIds :
        /\ OverlappingCreatesReturned(s, t)
        /\ sessions[s].outcome = "ok" /\ sessions[t].outcome = "ok"
        /\ \E a \in store, b \in store :
              a.id # b.id /\ a.all_day /\ b.all_day /\ SharesTime(a, b)

(***************************************************************************)
(* Properties of the interval of a draft                                   *)
(***************************************************************************)
\* C30: every draft generate_event_draft returns has start and end set and
\* its end strictly after its start, whatever the prompt and its duration
\* phrases: the draft can be saved as an event, whose schema rejects an end
\* that is not after the start.
C30_DraftEndsAfterStart ==
    Returned =>
        /\ draft.start_datetime # None
        /\ draft.end_datetime # None
        /\ Before(DraftStart, DraftEnd)

\* An all-day draft, and a timed draft whose first duration phrase does not
\* say 0 hours, end after they start.
NonZeroDurationEndsAfterStart ==
    Returned /\ (draft.all_day \/ ExpectedHours > 0) =>
        /\ draft.start_datetime # None
        /\ draft.end_datetime # None
        /\ Before(DraftStart, DraftEnd)

\* A timed draft for a prompt that says "0 hrs" ends at the instant it
\* starts.
ZeroHoursEndsAtStart ==
    /\ Returned /\ ~draft.all_day
    /\ prompt = "at 3pm 0 hrs"
    /\ draft.end_datetime = draft.start_datetime

====
